---- MODULE Spec2Model ----
(***************************************************************************)
(* Verification model of the vitess action queue (tabletmanager actor),    *)
(* and of the wrangler's externally triggered reparent.                    *)
(*                                                                         *)
(* One action path of the topology store is modelled: the queue node at    *)
(* actionPath, its sibling record under the actionlog directory, and the   *)
(* processes that handle it.  The path's target is either a tablet (the    *)
(* node is handled by vtaction actors calling TabletActor.HandleAction) or *)
(* a shard (the node is the lock of Wrangler.ShardExternallyReparented and *)
(* is finished by Wrangler.handleActionError).                             *)
(*                                                                         *)
(* Every topology call is one atomic step; the code between two calls is   *)
(* folded into the step of the call that precedes it.                      *)
(***************************************************************************)
EXTENDS Integers, Naturals, FiniteSets, Sequences, TLC

\* ---------------------------------------------------------------- bounds
\* number of vtaction processes (restarts included) started on one action
NumActors == 2

\* number of tablet actions the agents of one shard run
MaxActions == 4

Actors == 1..NumActors

\* ------------------------------------------------------- action node data
ACTION_STATE_QUEUED == ""
ACTION_STATE_RUNNING == "Running"
ACTION_STATE_FAILED == "Failed"
ACTION_STATE_DONE == "Done"

ActionStates ==
  {ACTION_STATE_QUEUED, ACTION_STATE_RUNNING, ACTION_STATE_FAILED, ACTION_STATE_DONE}

\* Go error values: kind tells which code produced it, msg is err.Error().
NilError == [kind |-> "nil", msg |-> ""]

MkError(kind, msg) == [kind |-> kind, msg |-> msg]

ZNONODE == MkError("zk", "no node")
ZNODEEXISTS == MkError("zk", "node exists")
ZBADVERSION == MkError("zk", "bad version")
ZNOTEMPTY == MkError("zk", "not empty")

\* a path that holds no node
NoNode == [exists |-> FALSE, state |-> "none", version |-> 0, error |-> ""]

\* the node Initiate creates: state queued, version 0
QueuedNode == [exists |-> TRUE, state |-> ACTION_STATE_QUEUED, version |-> 0, error |-> ""]

NoLog == [exists |-> FALSE, state |-> "none", error |-> ""]

VARIABLES
  target,      \* "tablet" or "shard": whose action queue actionPath is in
  node,        \* the queue node at actionPath
  logDir,      \* whether the actionlog directory of the target exists
  log,         \* the node at ActionToActionLogPath(actionPath)
  logCreates,  \* number of successful Create calls at the action log path
  actors,      \* the vtaction processes: position in HandleAction and locals
  tablets,     \* the tablet records of the shard: type, parent, key range
  shard,       \* the shard record
  wr,          \* the wrangler running ShardExternallyReparented
  hist,        \* tablet actions the wrangler has issued, rebuilds it has run
  other,       \* a second coordinator running a shard-wide operation
  graph,       \* the replication graph: the replication paths that exist
  rsd,         \* the restart-slave-data file under the shard action path
  mysqld,      \* what the tablets' mysqld have been made to do
  last,        \* the tablet action that ran last and how it ended
  validator,   \* Wrangler.ValidateShard: waitForResults and the goroutines it waits for
  binlog,      \* the statements of the decoded binlog and where its writer is
  blp,         \* the binlog parser of one subscriber and the stream sent to it
  throttle,    \* BinlogServer: its clients, the throttle ticker and the sleeps it sets
  reader,      \* BinlogReader.ServeData and the binlog files mysqld writes
  codec,       \* an action node, its JSON text and what decoding the text gives
  restore      \* RestoreFromMultiSnapshot: its goroutines and the tokens they hold

actorVars == <<actors>>
agentVars == <<graph, rsd, mysqld, last>>
shardVars == <<tablets, shard, wr, hist, other, agentVars>>
serviceVars == <<validator, binlog, blp, throttle, reader, codec, restore>>
coreVars == <<target, node, logDir, log, logCreates, actors, tablets, shard, wr, hist, other,
              graph, rsd, mysqld, last>>
notValidator == <<binlog, blp, throttle, reader, codec, restore>>
notBinlog == <<validator, throttle, reader, codec, restore>>
notThrottle == <<validator, binlog, blp, reader, codec, restore>>
notReader == <<validator, binlog, blp, throttle, codec, restore>>
notCodec == <<validator, binlog, blp, throttle, reader, restore>>
notRestore == <<validator, binlog, blp, throttle, reader, codec>>
vars == <<target, node, logDir, log, logCreates, actors, tablets, shard, wr, hist, other,
          graph, rsd, mysqld, last, serviceVars>>

IdleActor ==
  [pc |-> "idle", forceRerun |-> FALSE, matches |-> TRUE,
   readState |-> "none", readVersion |-> 0,
   actionErr |-> NilError, ret |-> NilError,
   tried |-> FALSE, claimed |-> FALSE, mismatch |-> FALSE,
   dispatched |-> FALSE, panicked |-> FALSE, escaped |-> FALSE, stored |-> FALSE]

\* ------------------------------------------------------------- zk calls
\* (mutant) a Set that ignores the expected version
ZkSetAnyVersion(n, state, version) ==
  IF ~n.exists THEN [err |-> ZNONODE, node |-> n]
  ELSE [err |-> NilError,
        node |-> [n EXCEPT !.state = state, !.version = n.version + 1]]

\* zconn.Set(path, data, version): the node after the call and the error
ZkSet(n, state, version) ==
  IF ~n.exists THEN [err |-> ZNONODE, node |-> n]
  ELSE IF n.version # version THEN [err |-> ZBADVERSION, node |-> n]
  ELSE [err |-> NilError,
        node |-> [n EXCEPT !.state = state, !.version = n.version + 1]]

\* (mutant) a Create that overwrites an existing node
ZkCreateLogOverwrite(dirExists, l, rec) ==
  IF ~dirExists THEN [err |-> ZNONODE, log |-> l]
  ELSE [err |-> NilError,
        log |-> [exists |-> TRUE, state |-> rec.state, error |-> rec.error]]

\* zconn.Create(actionLogPath, data, 0, acl): fails when the parent is
\* missing or the node exists
ZkCreateLog(dirExists, l, rec) ==
  IF ~dirExists THEN [err |-> ZNONODE, log |-> l]
  ELSE IF l.exists THEN [err |-> ZNODEEXISTS, log |-> l]
  ELSE [err |-> NilError,
        log |-> [exists |-> TRUE, state |-> rec.state, error |-> rec.error]]

\* (mutant) the failed record loses the error text
TerminalRecordNoError(actionErr) ==
  IF actionErr # NilError
    THEN [state |-> ACTION_STATE_FAILED, error |-> ""]
    ELSE [state |-> ACTION_STATE_DONE, error |-> ""]

\* StoreActionResponse, "change our state": the terminal copy of the node
TerminalRecord(actionErr) ==
  IF actionErr # NilError
    THEN [state |-> ACTION_STATE_FAILED, error |-> actionErr.msg]
    ELSE [state |-> ACTION_STATE_DONE, error |-> ""]

\* -------------------------------------------------------- HandleAction
\* (mutant) the failed case falls through to the claim
StateSwitchFailedFallsThrough(state, forceRerun) ==
  CASE state = ACTION_STATE_RUNNING /\ ~forceRerun -> "wait"
    [] state = ACTION_STATE_DONE -> "retDone"
    [] OTHER -> "claim"

\* the switch on actionNode.State after the read
StateSwitch(state, forceRerun) ==
  CASE state = ACTION_STATE_RUNNING /\ ~forceRerun -> "wait"
    [] state = ACTION_STATE_FAILED -> "retFailed"
    [] state = ACTION_STATE_DONE -> "retDone"
    [] OTHER -> "claim"

\* (mutant) the claim leaves the state as it was read
ClaimedStateUnset == ACTION_STATE_QUEUED

\* the state HandleAction writes to claim the action
ClaimedState == ACTION_STATE_RUNNING

\* what HandleAction does with the error of the claiming Set
ClaimOutcome(zkErr) ==
  IF zkErr = NilError THEN "claimed"
  ELSE IF zkErr = ZBADVERSION THEN "wait"
  ELSE "return"

\* (mutant) dispatchAction without the deferred recover: the panic escapes
dispatchActionNoRecover(outcome) ==
  CASE outcome = "ok" -> NilError
    [] outcome = "error" -> MkError("handler", "handler failed")
    [] outcome = "panic" -> MkError("escaped", "handler")

\* dispatchAction: the handler's outcome as the error HandleAction gets;
\* the deferred recover turns a panic into a PanicError
dispatchAction(outcome) ==
  CASE outcome = "ok" -> NilError
    [] outcome = "error" -> MkError("handler", "handler failed")
    [] outcome = "panic" -> MkError("panic", "dispatchAction panic: handler")

HandlerOutcomes == {"ok", "error", "panic"}

\* HandleAction lines 67-92: read the node, inspect its state
HandleActionGet(a, force, match) ==
  /\ target = "tablet"
  /\ actors[a].pc = "idle"
  /\ LET me == [actors[a] EXCEPT !.forceRerun = force, !.matches = match] IN
     IF ~node.exists
       THEN actors' = [actors EXCEPT ![a] = [me EXCEPT !.pc = "done", !.ret = ZNONODE]]
       ELSE LET seen == [me EXCEPT !.readState = node.state,
                                   !.readVersion = node.version]
                next == StateSwitch(node.state, force)
            IN actors' = [actors EXCEPT ![a] =
                 CASE next = "wait" -> [seen EXCEPT !.pc = "wait"]
                   [] next = "retFailed" ->
                        [seen EXCEPT !.pc = "done", !.ret = MkError("fmt", node.error)]
                   [] next = "retDone" ->
                        [seen EXCEPT !.pc = "done",
                                     !.ret = MkError("fmt", "Unexpected finished ActionNode")]
                   [] OTHER -> [seen EXCEPT !.pc = next]]
  /\ UNCHANGED <<serviceVars, target, node, logDir, log, logCreates, shardVars>>

\* HandleAction lines 94-120: claim by compare-and-set, then validate
HandleActionClaim(a) ==
  /\ actors[a].pc = "claim"
  /\ LET r == ZkSet(node, ClaimedState, actors[a].readVersion)
         o == ClaimOutcome(r.err)
         me == [actors[a] EXCEPT !.tried = TRUE]
     IN /\ node' = r.node
        /\ actors' = [actors EXCEPT ![a] =
             CASE o = "wait" -> [me EXCEPT !.pc = "wait", !.mismatch = TRUE]
               [] o = "return" -> [me EXCEPT !.pc = "done", !.ret = r.err]
               [] OTHER ->
                    IF ~me.matches
                      THEN [me EXCEPT !.claimed = TRUE, !.pc = "done",
                                      !.ret = MkError("actor", "invalid action initiation")]
                      ELSE [me EXCEPT !.claimed = TRUE, !.pc = "dispatch"]]
  /\ UNCHANGED <<serviceVars, target, logDir, log, logCreates, shardVars>>

\* HandleAction line 122: run the handler through dispatchAction.  A panic
\* that dispatchAction does not recover unwinds HandleAction and ends the
\* process.
HandleActionDispatch(a, outcome) ==
  /\ actors[a].pc = "dispatch"
  /\ LET err == dispatchAction(outcome)
         me == [actors[a] EXCEPT !.dispatched = TRUE, !.panicked = (outcome = "panic")]
     IN actors' = [actors EXCEPT ![a] =
          IF err.kind = "escaped"
            THEN [me EXCEPT !.pc = "crashed", !.escaped = TRUE]
            ELSE [me EXCEPT !.pc = "store", !.actionErr = err]]
  /\ UNCHANGED <<serviceVars, target, node, logDir, log, logCreates, shardVars>>

\* (mutant) StoreActionResponse that gives up when the parent is missing
StoreActionResponseNoParentFix(l, dirExists, actionErr, retry) ==
  LET r == ZkCreateLog(dirExists, l, TerminalRecord(actionErr)) IN
  IF r.err = NilError THEN [next |-> "stored", err |-> NilError, log |-> r.log]
  ELSE [next |-> "return", err |-> r.err, log |-> l]

\* StoreActionResponse lines 216-219 and 233: Create the terminal record.
\* The result names what the caller does next.
StoreActionResponse(l, dirExists, actionErr, retry) ==
  LET r == ZkCreateLog(dirExists, l, TerminalRecord(actionErr)) IN
  IF r.err = NilError THEN [next |-> "stored", err |-> NilError, log |-> r.log]
  ELSE IF r.err = ZNONODE /\ ~retry THEN [next |-> "mkdir", err |-> NilError, log |-> l]
  ELSE [next |-> "return", err |-> r.err, log |-> l]

\* HandleAction line 123, first Create of StoreActionResponse
HandleActionStore(a) ==
  /\ actors[a].pc \in {"store", "store2"}
  /\ LET r == StoreActionResponse(log, logDir, actors[a].actionErr,
                                  actors[a].pc = "store2")
     IN /\ log' = r.log
        /\ logCreates' = IF r.next = "stored" THEN logCreates + 1 ELSE logCreates
        /\ actors' = [actors EXCEPT ![a] =
             CASE r.next = "stored" -> [@ EXCEPT !.pc = "delete", !.stored = TRUE]
               [] r.next = "mkdir" -> [@ EXCEPT !.pc = "mkdir"]
               [] OTHER -> [@ EXCEPT !.pc = "done", !.ret = r.err]]
  /\ UNCHANGED <<serviceVars, target, node, logDir, shardVars>>

\* StoreActionResponse lines 224-230: create the missing actionlog directory
HandleActionMkdir(a) ==
  /\ actors[a].pc = "mkdir"
  /\ IF logDir
       THEN /\ actors' = [actors EXCEPT ![a].pc = "done", ![a].ret = ZNODEEXISTS]
            /\ UNCHANGED logDir
       ELSE /\ actors' = [actors EXCEPT ![a].pc = "store2"]
            /\ logDir' = TRUE
  /\ UNCHANGED <<serviceVars, target, node, log, logCreates, shardVars>>

\* HandleAction lines 128-134: remove the queue node, return the outcome
HandleActionDelete(a) ==
  /\ actors[a].pc = "delete"
  /\ IF node.exists
       THEN /\ node' = NoNode
            /\ actors' = [actors EXCEPT ![a].pc = "done", ![a].ret = actors[a].actionErr]
       ELSE /\ UNCHANGED node
            /\ actors' = [actors EXCEPT ![a].pc = "done", ![a].ret = ZNONODE]
  /\ UNCHANGED <<serviceVars, target, logDir, log, logCreates, shardVars>>

\* WaitForCompletion(zconn, actionPath, 0): block until the log node exists,
\* then nil for a done record and an error wrapping the recorded one for a
\* failed record
WaitForCompletionResult(l) ==
  IF l.state = ACTION_STATE_DONE THEN NilError ELSE MkError("wait", l.error)

\* HandleAction lines 83-84 and 103-104
HandleActionWait(a) ==
  /\ actors[a].pc = "wait"
  /\ log.exists
  /\ actors' = [actors EXCEPT ![a].pc = "done", ![a].ret = WaitForCompletionResult(log)]
  /\ UNCHANGED <<serviceVars, target, node, logDir, log, logCreates, shardVars>>

\* the vtaction process dies between two topology calls
ActorCrash(a) ==
  /\ actors[a].pc \notin {"idle", "done", "crashed"}
  /\ actors' = [actors EXCEPT ![a].pc = "crashed"]
  /\ UNCHANGED <<serviceVars, target, node, logDir, log, logCreates, shardVars>>

\* ------------------------------------------------- shard and tablets
TYPE_MASTER == "master"
TYPE_REPLICA == "replica"
TYPE_RDONLY == "rdonly"
TYPE_SPARE == "spare"
TYPE_LAG == "lag"
TYPE_LAG_ORPHAN == "lag_orphan"
TYPE_IDLE == "idle"
TYPE_SCRAP == "scrap"

\* the tablets of the shard, in the order a rebuild lists them
TabletOrder == <<"t1", "t2", "t3", "t4">>

Tablets == {TabletOrder[i] : i \in DOMAIN TabletOrder}

\* a tablet path that is in no shard
UnknownTablet == "t9"

KeyRangeOfShard == "00-80"

newShard ==
  [MasterAlias |-> "", ReplicaAliases |-> <<>>, RdonlyAliases |-> <<>>, KeyRange |-> ""]

\* ShardInfo.Rebuild: the loop over shardTablets from index i on
RECURSIVE RebuildLoop(_, _, _, _)
RebuildLoop(si, tmp, shardTablets, i) ==
  IF i > Len(shardTablets) THEN [err |-> NilError, shard |-> tmp]
  ELSE
    LET t == shardTablets[i]
        typed == CASE t.type = TYPE_MASTER -> [tmp EXCEPT !.MasterAlias = t.alias]
                   [] t.type = TYPE_REPLICA ->
                        [tmp EXCEPT !.ReplicaAliases = Append(@, t.alias)]
                   [] t.type = TYPE_RDONLY ->
                        [tmp EXCEPT !.RdonlyAliases = Append(@, t.alias)]
                   [] OTHER -> tmp
    IN IF i = 1
         THEN RebuildLoop(si, [typed EXCEPT !.KeyRange = t.keyRange], shardTablets, i + 1)
         ELSE IF typed.KeyRange # t.keyRange
           THEN [err |-> MkError("fmt", "inconsistent KeyRange"), shard |-> si]
           ELSE RebuildLoop(si, typed, shardTablets, i + 1)

\* a rebuild that fills the record si holds instead of a new one
RebuildOnto(si, shardTablets) == RebuildLoop(si, si, shardTablets, 1)

\* ShardInfo.Rebuild(shardTablets): the error and the record si holds after
Rebuild(si, shardTablets) == RebuildLoop(si, newShard, shardTablets, 1)

\* the member tablets as the list a rebuild reads
ShardTablets(tbl) ==
  [i \in DOMAIN TabletOrder |->
     [alias |-> TabletOrder[i], type |-> tbl[TabletOrder[i]].type,
      keyRange |-> tbl[TabletOrder[i]].keyRange]]

InitTablets ==
  [t \in Tablets |->
     IF t = "t1" THEN [type |-> TYPE_MASTER, parent |-> "", keyRange |-> KeyRangeOfShard]
     ELSE [type |-> TYPE_REPLICA, parent |-> "t1", keyRange |-> KeyRangeOfShard]]

\* Tablet.ReplicationPath: the master's path is a child of the shard, a
\* slave's path is a child of its parent's
ReplicationPath(tablet, alias) ==
  IF tablet.parent = "" THEN <<alias>> ELSE <<tablet.parent, alias>>

InitGraph == {ReplicationPath(InitTablets[t], t) : t \in Tablets}

\* no restart_slave_data.json under the shard action path
NoRestartSlaveData == [exists |-> FALSE, parent |-> "", force |-> FALSE]

\* promoted, restarted: the tablets whose mysqld ran PromoteSlave, RestartSlave;
\* again: PromoteSlave ran after an earlier one had succeeded
IdleMysqld == [promoted |-> {}, again |-> FALSE, restarted |-> {}]

\* n: the number of tablet actions run so far; data: the RestartSlaveData a
\* RestartSlave used
NoAction ==
  [n |-> 0, action |-> "", tablet |-> "", err |-> NilError, mysqldCalled |-> FALSE,
   data |-> NoRestartSlaveData]

InitShard == Rebuild(newShard, ShardTablets(InitTablets)).shard

\* a validation that has not been started
IdleValidator ==
  [pc |-> "idle", err |-> NilError, unread |-> 0, results |-> <<>>, done |-> "no",
   wg |-> 0, shardPc |-> "none", spawn |-> FALSE, pending |-> <<>>,
   checks |-> [t \in Tablets |-> "none"],
   sent |-> 0, received |-> 0, reported |-> FALSE]

\* what one subscriber of the binlog stream asked for: database, key range
\* [start, end) and start position
Subscription == [dbname |-> "vt", start |-> 128, end |-> 192, file |-> 1, offset |-> 8]

\* a binlog of which nothing was decoded yet, its writer at the start position
NoBinlog ==
  [stmts |-> <<>>, relay |-> 1, file |-> Subscription.file, offset |-> Subscription.offset]

\* NewBlp: the parser before ServeBinlog has started it for a subscriber
IdleBlp ==
  [version |-> "", usingRelayLogs |-> FALSE, pc |-> "idle",
   nextStmtPosition |-> 0, inTxn |-> FALSE, txnLineBuffer |-> <<>>,
   initialSeek |-> TRUE, dbmatch |-> TRUE,
   currentPosition |-> [relay |-> 1, file |-> Subscription.file,
                        offset |-> Subscription.offset, xid |-> 0],
   sent |-> <<>>]

\* the services of this module that a behaviour of another one leaves alone
\* the keyrange tags of the subscribers a binlog server can have
ThrottleClients == {"80", "MAX_KEY"}

\* the binlog server main() starts: no client yet, the ticker running
IdleThrottle ==
  [ticker |-> "running", tick |-> 0, clients |-> {},
   krRateMap |-> [c \in ThrottleClients |-> -1],
   sleepToThrottle |-> [c \in ThrottleClients |-> 0],
   slept |-> [c \in ThrottleClients |-> 0]]

BINLOG_HEADER_SIZE == 4

\* one binlog file, of which mysqld has written the header, and no reader
IdleReader ==
  [pc |-> "idle", logs |-> <<BINLOG_HEADER_SIZE>>, file |-> 0, position |-> 0,
   positionWaitStart |-> {}, out |-> <<>>,
   entry |-> "", requested |-> 0, startPosition |-> 0, measured |-> <<>>, err |-> ""]

\* no action node written or read yet
NoCodec == [pc |-> "idle"]

\* no restore running
IdleRestore == [pc |-> "idle"]

ServicesIdle ==
  /\ validator = IdleValidator
  /\ binlog = NoBinlog
  /\ blp = IdleBlp
  /\ throttle = IdleThrottle
  /\ reader = IdleReader
  /\ codec = NoCodec
  /\ restore = IdleRestore

\* slaveTabletMap(tabletMap): the tablets with a parent, and the one without
SlavesOf(tbl) == {t \in Tablets : tbl[t].parent # ""}

MasterOf(tbl) == CHOOSE t \in Tablets : tbl[t].parent = ""

\* AllErrorRecorder.Error: the recorded messages joined with newlines
RECURSIVE JoinErrors(_)
JoinErrors(errors) ==
  IF Len(errors) = 1 THEN errors[1]
  ELSE errors[1] \o "\n" \o JoinErrors(Tail(errors))

RecorderError(errors) ==
  IF Len(errors) = 0 THEN NilError ELSE MkError("fmt", JoinErrors(errors))

\* (mutant) FirstErrorRecorder.RecordError: only the first error is kept
RecordErrorFirstOnly(errors, err) ==
  IF err = NilError \/ Len(errors) > 0 THEN errors ELSE <<err.msg>>

\* AllErrorRecorder.RecordError
RecordError(errors, err) ==
  IF err = NilError THEN errors ELSE Append(errors, err.msg)

IdleWrangler ==
  [pc |-> "idle", masterElect |-> "", scrapStragglers |-> FALSE,
   slaveTabletMap |-> {}, foundMaster |-> "", pending |-> {},
   errors |-> <<>>, reparentErr |-> NilError, locked |-> FALSE,
   promoteFailed |-> FALSE, ret |-> NilError]

\* the second coordinator before it asks for the shard lock
IdleOther == [pc |-> "idle", masterElect |-> ""]

NoHistory ==
  [promoted |-> 0, restarted |-> [t \in Tablets |-> 0], failed |-> {}, rebuilt |-> 0]

\* ------------------------------------------- ShardExternallyReparented
\* (mutant) a master-elect that is already the master is let through
CheckMasterElectAllowsMaster(currentMaster, elect, tabletMap) ==
  IF elect \notin tabletMap
    THEN MkError("fmt", "master-elect tablet not found in replication graph")
  ELSE NilError

\* lines 39-50: the checks on the master-elect made before the lock is taken
CheckMasterElect(currentMaster, elect, tabletMap) ==
  IF currentMaster = elect
    THEN MkError("fmt", "master-elect tablet is already master")
  ELSE IF elect \notin tabletMap
    THEN MkError("fmt", "master-elect tablet not found in replication graph")
  ELSE NilError

\* lines 24-50: read the shard and its tablets, check the master-elect
ShardExternallyReparented(elect, scrap) ==
  /\ target = "shard"
  /\ wr.pc = "idle"
  /\ LET me == [wr EXCEPT !.masterElect = elect, !.scrapStragglers = scrap,
                          !.slaveTabletMap = SlavesOf(tablets),
                          !.foundMaster = MasterOf(tablets)]
         err == CheckMasterElect(shard.MasterAlias, elect, Tablets)
     IN wr' = IF err # NilError
                THEN [me EXCEPT !.pc = "done", !.ret = err]
                ELSE [me EXCEPT !.pc = "lock"]
  /\ UNCHANGED <<agentVars, other, serviceVars, target, node, logDir, log, logCreates, actorVars, tablets, shard, hist>>

\* obtainActionLock: the shard's lock can be taken when no coordinator's
\* lock node is under the shard's action path
LockFree(n, o) == ~n.exists /\ o.pc \notin {"locked", "reparented"}

\* (mutant) the action node is created and the lock is not waited for
GrabShardLockNoWait ==
  /\ wr.pc = "lock"
  /\ node' = QueuedNode
  /\ wr' = [wr EXCEPT !.pc = "promote", !.locked = TRUE]
  /\ UNCHANGED <<agentVars, other, serviceVars, target, logDir, log, logCreates, actorVars, tablets, shard, hist>>

\* lines 52-59: create the action node in the shard's queue and wait to be
\* first in it
GrabShardLock ==
  /\ wr.pc = "lock"
  /\ LockFree(node, other)
  /\ node' = QueuedNode
  /\ wr' = [wr EXCEPT !.pc = "promote", !.locked = TRUE]
  /\ UNCHANGED <<agentVars, other, serviceVars, target, logDir, log, logCreates, actorVars, tablets, shard, hist>>

\* (mutant) the error of slaveWasPromoted is ignored
AfterPromoteIgnoresError(err) == "restart"

\* what reparentShardExternal does after slaveWasPromoted returned err
AfterPromote(err) == IF err # NilError THEN "fail" ELSE "restart"

\* the SlaveWasPromoted action on the master-elect's agent
TabletPromoted(tbl, elect) ==
  [tbl EXCEPT ![elect].type = TYPE_MASTER, ![elect].parent = ""]

\* the SlaveWasRestarted action on a tablet's agent
TabletRestarted(tbl, t, parent) ==
  [tbl EXCEPT ![t].parent = parent,
              ![t].type = IF @ = TYPE_MASTER THEN TYPE_REPLICA ELSE @]

\* (mutant) the master-elect is left in the slave map
RemainingSlavesKeepsElect(slaveTabletMap, elect) == slaveTabletMap

\* reparentShardExternal line 90: delete(slaveTabletMap, masterElectTablet.Path())
RemainingSlaves(slaveTabletMap, elect) == slaveTabletMap \ {elect}

\* reparentShardExternal lines 82-90
SlaveWasPromoted(ok) ==
  /\ wr.pc = "promote"
  /\ LET err == IF ok THEN NilError ELSE MkError("wait", "SlaveWasPromoted failed") IN
     /\ hist' = [hist EXCEPT !.promoted = @ + 1]
     /\ tablets' = IF ok THEN TabletPromoted(tablets, wr.masterElect) ELSE tablets
     /\ wr' = IF AfterPromote(err) = "fail"
                THEN [wr EXCEPT !.pc = "handleActionError", !.promoteFailed = ~ok,
                                !.reparentErr = MkError("fmt", "slaveWasPromoted failed: " \o err.msg)]
                ELSE [wr EXCEPT !.pc = "restartSlaves", !.promoteFailed = ~ok,
                                !.slaveTabletMap = RemainingSlaves(@, wr.masterElect),
                                !.pending = RemainingSlaves(wr.slaveTabletMap, wr.masterElect)]
  /\ UNCHANGED <<agentVars, other, serviceVars, target, node, logDir, log, logCreates, actorVars, shard>>

\* Wrangler.slaveWasRestarted on tablet t, with the action's outcome
SlaveWasRestartedOn(t, ok) ==
  /\ hist' = [hist EXCEPT !.restarted[t] = @ + 1,
                          !.failed = IF ok THEN @ ELSE @ \cup {t}]
  /\ tablets' = IF ok THEN TabletRestarted(tablets, t, wr.masterElect) ELSE tablets
  /\ UNCHANGED <<agentVars, other, serviceVars, target, node, logDir, log, logCreates, actorVars, shard>>

SlaveWasRestartedError(t, ok) ==
  IF ok THEN NilError ELSE MkError("wait", "SlaveWasRestarted failed on " \o t)

\* restartSlavesExternal lines 114-122: one goroutine per slave
RestartSlave(t, ok) ==
  /\ wr.pc = "restartSlaves"
  /\ t \in wr.pending
  /\ SlaveWasRestartedOn(t, ok)
  /\ wr' = [wr EXCEPT !.pending = @ \ {t},
                      !.errors = RecordError(@, SlaveWasRestartedError(t, ok))]

\* what reparentShardExternal does with the error of restartSlavesExternal
AfterRestart(err) == IF err # NilError THEN "return" ELSE "rebuild"

\* restartSlavesExternal lines 124-126 after wg.Wait, reparentShardExternal
\* lines 93-96
RestartMaster(ok) ==
  /\ wr.pc = "restartSlaves"
  /\ wr.pending = {}
  /\ SlaveWasRestartedOn(wr.foundMaster, ok)
  /\ LET errors == RecordError(wr.errors, SlaveWasRestartedError(wr.foundMaster, ok))
         err == RecorderError(errors)
     IN wr' = IF AfterRestart(err) = "return"
                THEN [wr EXCEPT !.errors = errors, !.reparentErr = err,
                                !.pc = "handleActionError"]
                ELSE [wr EXCEPT !.errors = errors, !.pc = "rebuild"]

\* reparentShardExternal lines 98-100: rebuild the shard record from its tablets
RebuildShard ==
  /\ wr.pc = "rebuild"
  /\ LET r == Rebuild(shard, ShardTablets(tablets)) IN
     /\ shard' = r.shard
     /\ wr' = [wr EXCEPT !.reparentErr = r.err, !.pc = "handleActionError"]
  /\ hist' = [hist EXCEPT !.rebuilt = @ + 1]
  /\ UNCHANGED <<agentVars, other, serviceVars, target, node, logDir, log, logCreates, actorVars, tablets>>

\* ---------------------------------------------------- handleActionError
\* whether handleActionError removes the action node after the record is stored
UnblocksQueue(actionErr) == actionErr = NilError

\* ShardExternallyReparented lines 69-77: the error it returns; the error of
\* handleActionError is only logged
ReparentReturn(reparentErr, err) == reparentErr

\* handleActionError lines 148-156: re-read the action node
HandleActionErrorGet ==
  /\ wr.pc = "handleActionError"
  /\ wr' = IF node.exists THEN [wr EXCEPT !.pc = "store"]
           ELSE [wr EXCEPT !.pc = "done", !.ret = ReparentReturn(wr.reparentErr, ZNONODE)]
  /\ UNCHANGED <<agentVars, other, serviceVars, target, node, logDir, log, logCreates, actorVars, tablets, shard, hist>>

\* handleActionError lines 158-169: StoreActionResponse, its Create calls
HandleActionErrorStore ==
  /\ wr.pc \in {"store", "store2"}
  /\ LET r == StoreActionResponse(log, logDir, wr.reparentErr, wr.pc = "store2") IN
     /\ log' = r.log
     /\ logCreates' = IF r.next = "stored" THEN logCreates + 1 ELSE logCreates
     /\ wr' = CASE r.next = "mkdir" -> [wr EXCEPT !.pc = "mkdir"]
                [] r.next = "stored" /\ UnblocksQueue(wr.reparentErr) ->
                     [wr EXCEPT !.pc = "delete"]
                [] r.next = "stored" ->
                     [wr EXCEPT !.pc = "done",
                                !.ret = ReparentReturn(wr.reparentErr, NilError)]
                [] OTHER ->
                     [wr EXCEPT !.pc = "done", !.ret = ReparentReturn(wr.reparentErr, r.err)]
  /\ UNCHANGED <<agentVars, other, serviceVars, target, node, logDir, actorVars, tablets, shard, hist>>

\* StoreActionResponse lines 224-230 called from handleActionError
HandleActionErrorMkdir ==
  /\ wr.pc = "mkdir"
  /\ IF logDir
       THEN /\ wr' = [wr EXCEPT !.pc = "done",
                                !.ret = ReparentReturn(wr.reparentErr, ZNODEEXISTS)]
            /\ UNCHANGED logDir
       ELSE /\ wr' = [wr EXCEPT !.pc = "store2"]
            /\ logDir' = TRUE
  /\ UNCHANGED <<agentVars, other, serviceVars, target, node, log, logCreates, actorVars, tablets, shard, hist>>

\* handleActionError lines 164-167: zk.DeleteRecursive(actionPath, -1)
HandleActionErrorDelete ==
  /\ wr.pc = "delete"
  /\ node' = NoNode
  /\ wr' = [wr EXCEPT !.pc = "done", !.ret = ReparentReturn(wr.reparentErr, NilError)]
  /\ UNCHANGED <<agentVars, other, serviceVars, target, logDir, log, logCreates, actorVars, tablets, shard, hist>>

\* ------------------------------------------------- a second coordinator
\* another shard-wide operation takes the shard lock
OtherObtainLock ==
  /\ target = "shard"
  /\ other.pc = "idle"
  /\ LockFree(node, other)
  /\ other' = [other EXCEPT !.pc = "locked"]
  /\ UNCHANGED <<agentVars, serviceVars, target, node, logDir, log, logCreates, actorVars, tablets, shard, wr, hist>>

\* the tablets after a completed reparent to elect: SlaveWasPromoted on elect,
\* SlaveWasRestarted on every other tablet
Reparented(tbl, elect) ==
  [t \in Tablets |-> IF t = elect THEN TabletPromoted(tbl, elect)[t]
                     ELSE TabletRestarted(tbl, t, elect)[t]]

\* its locked section: an external reparent of the shard to elect, from the
\* promotion to the rebuild of the shard record
OtherReparent(elect) ==
  /\ other.pc = "locked"
  /\ elect # shard.MasterAlias
  /\ tablets' = Reparented(tablets, elect)
  /\ shard' = Rebuild(shard, ShardTablets(Reparented(tablets, elect))).shard
  /\ other' = [other EXCEPT !.pc = "reparented", !.masterElect = elect]
  /\ UNCHANGED <<agentVars, serviceVars, target, node, logDir, log, logCreates, actorVars, wr, hist>>

\* it releases the lock
OtherReleaseLock ==
  /\ other.pc \in {"locked", "reparented"}
  /\ other' = [other EXCEPT !.pc = "done"]
  /\ UNCHANGED <<agentVars, serviceVars, target, node, logDir, log, logCreates, actorVars, tablets, shard, wr, hist>>

OtherNext ==
  \/ OtherObtainLock
  \/ \E elect \in Tablets : OtherReparent(elect)
  \/ OtherReleaseLock

WranglerNext ==
  \/ \E elect \in Tablets \cup {UnknownTablet}, scrap \in BOOLEAN :
       ShardExternallyReparented(elect, scrap)
  \/ GrabShardLock
  \/ \E ok \in BOOLEAN : SlaveWasPromoted(ok)
  \/ \E t \in Tablets, ok \in BOOLEAN : RestartSlave(t, ok)
  \/ \E ok \in BOOLEAN : RestartMaster(ok)
  \/ RebuildShard
  \/ HandleActionErrorGet
  \/ HandleActionErrorStore
  \/ HandleActionErrorMkdir
  \/ HandleActionErrorDelete

ActorNext ==
  \E a \in Actors :
    \/ \E force \in BOOLEAN, match \in BOOLEAN : HandleActionGet(a, force, match)
    \/ HandleActionClaim(a)
    \/ \E outcome \in HandlerOutcomes : HandleActionDispatch(a, outcome)
    \/ HandleActionStore(a)
    \/ HandleActionMkdir(a)
    \/ HandleActionDelete(a)
    \/ HandleActionWait(a)
    \/ ActorCrash(a)

\* A tablet action starts as the node Initiate has queued; the shard action
\* is created by the wrangler itself.
Init ==
  /\ target \in {"tablet", "shard"}
  /\ node = IF target = "tablet" THEN QueuedNode ELSE NoNode
  /\ logDir \in BOOLEAN
  /\ log = NoLog
  /\ logCreates = 0
  /\ actors = [a \in Actors |-> IdleActor]
  /\ tablets = InitTablets
  /\ shard = Rebuild(newShard, ShardTablets(InitTablets)).shard
  /\ wr = IdleWrangler
  /\ hist = NoHistory
  /\ other = IdleOther
  /\ graph = InitGraph
  /\ rsd = NoRestartSlaveData
  /\ mysqld = IdleMysqld
  /\ last = NoAction
  /\ ServicesIdle

Next == ActorNext \/ WranglerNext

Spec == Init /\ [][Next]_vars

\* A queue may also hold a node left by an earlier release, which recorded
\* the outcome in the queue node itself (HandleAction lines 86-91), or a node
\* left running by a process that is gone.
InitLegacy ==
  /\ target \in {"tablet", "shard"}
  /\ node \in IF target = "tablet"
               THEN {[QueuedNode EXCEPT !.state = st,
                                        !.error = IF st = ACTION_STATE_FAILED
                                                    THEN "recorded failure" ELSE ""]
                       : st \in ActionStates}
               ELSE {NoNode}
  /\ logDir \in BOOLEAN
  /\ log = NoLog
  /\ logCreates = 0
  /\ actors = [a \in Actors |-> IdleActor]
  /\ tablets = InitTablets
  /\ shard = Rebuild(newShard, ShardTablets(InitTablets)).shard
  /\ wr = IdleWrangler
  /\ hist = NoHistory
  /\ other = IdleOther
  /\ graph = InitGraph
  /\ rsd = NoRestartSlaveData
  /\ mysqld = IdleMysqld
  /\ last = NoAction
  /\ ServicesIdle

SpecLegacy == InitLegacy /\ [][Next]_vars

\* ------------------------------------------------------- tablet actions
\* the process running the action is killed before the handler returns
Killed == MkError("killed", "process killed")

HasChildren(g, path) ==
  \E q \in g : Len(q) = Len(path) + 1 /\ SubSeq(q, 1, Len(path)) = path

\* zconn.Delete(path, -1) on the replication graph
ZkDeletePath(g, path) ==
  IF path \notin g THEN [graph |-> g, err |-> ZNONODE]
  ELSE IF HasChildren(g, path) THEN [graph |-> g, err |-> ZNOTEMPTY]
  ELSE [graph |-> g \ {path}, err |-> NilError]

\* zconn.Create(path, "", 0, acl) on the replication graph
ZkCreatePath(g, path) ==
  IF path \in g THEN [graph |-> g, err |-> ZNODEEXISTS]
  ELSE IF Len(path) > 1 /\ SubSeq(path, 1, Len(path) - 1) \notin g
    THEN [graph |-> g, err |-> ZNONODE]
  ELSE [graph |-> g \cup {path}, err |-> NilError]

\* the topology the tablet actions read and write
Topology == [tablets |-> tablets, graph |-> graph, rsd |-> rsd, mysqld |-> mysqld]

\* a handler's return: the topology it leaves, its error, whether it called
\* mysqld
Returns(z, err, called) == [z |-> z, err |-> err, mysqldCalled |-> called]

MysqldOutcomes == {"ok", "fails", "killed"}

\* TabletActor.promoteSlave on tablet t; outcome is that of
\* mysqld.PromoteSlave, or the process is killed right after that call
promoteSlave(z, t, outcome) ==
  LET tablet == z.tablets[t]
      promoted == [z EXCEPT !.mysqld.promoted = @ \cup {t},
                            !.mysqld.again = @ \/ z.mysqld.promoted # {}]
      written == [promoted EXCEPT !.rsd = [exists |-> TRUE, parent |-> t,
                                           force |-> tablet.parent = ""]]
      del == IF tablet.parent # ""
               THEN ZkDeletePath(z.graph, ReplicationPath(tablet, t))
               ELSE [graph |-> z.graph, err |-> NilError]
      master == [tablet EXCEPT !.type = TYPE_MASTER, !.parent = ""]
      cre == ZkCreatePath(del.graph, ReplicationPath(master, t))
  IN IF z.rsd.exists
       THEN Returns(z, MkError("fmt", "slave restart data already exists - suspicious"), FALSE)
     ELSE IF outcome = "fails"
       THEN Returns(z, MkError("mysqld", "PromoteSlave failed"), TRUE)
     ELSE IF outcome = "killed" THEN Returns(promoted, Killed, TRUE)
     ELSE IF del.err \notin {NilError, ZNONODE} THEN Returns(written, del.err, TRUE)
     ELSE Returns([written EXCEPT !.tablets[t] = master, !.graph = cre.graph],
                  IF cre.err \notin {NilError, ZNODEEXISTS} THEN cre.err ELSE NilError,
                  TRUE)

\* (mutant) the tablet is restarted and re-attached whatever its parent is
ParentDiffersAlways(tablet, data) == TRUE

\* restartSlave line 480
ParentDiffers(tablet, data) == tablet.parent # data.parent

\* restartSlave lines 463-475: the data of the arguments, else of the file
RestartSlaveDataOf(z, args) == IF args.exists THEN args ELSE z.rsd

\* TabletActor.restartSlave on tablet t; args is the RestartSlaveData of the
\* action's arguments (absent: the file under the shard action path is read)
restartSlave(z, t, args, outcome) ==
  LET tablet == z.tablets[t]
      data == RestartSlaveDataOf(z, args)
      del == ZkDeletePath(z.graph, ReplicationPath(tablet, t))
      detached == [z EXCEPT !.graph = del.graph]
      restarted == [z EXCEPT !.mysqld.restarted = @ \cup {t}]
      moved == IF tablet.type = TYPE_LAG
                 THEN [tablet EXCEPT !.type = TYPE_LAG_ORPHAN, !.parent = data.parent]
                 ELSE [tablet EXCEPT !.parent = data.parent]
      caughtUp == IF tablet.type = TYPE_LAG_ORPHAN
                    THEN [tablet EXCEPT !.type = TYPE_LAG] ELSE tablet
      Attach(y, tb, called) ==
        LET cre == ZkCreatePath(y.graph, ReplicationPath(tb, t))
        IN Returns([y EXCEPT !.tablets[t] = tb, !.graph = cre.graph],
                   IF cre.err \notin {NilError, ZNODEEXISTS} THEN cre.err ELSE NilError,
                   called)
  IN IF ~data.exists THEN Returns(z, ZNONODE, FALSE)
     ELSE IF ParentDiffers(tablet, data)
       THEN IF del.err \notin {NilError, ZNONODE} THEN Returns(z, del.err, FALSE)
            ELSE IF tablet.type = TYPE_LAG THEN Attach(detached, moved, FALSE)
            ELSE IF outcome = "fails"
              THEN Returns(detached, MkError("mysqld", "RestartSlave failed"), TRUE)
            ELSE IF outcome = "killed"
              THEN Returns([detached EXCEPT !.mysqld.restarted = @ \cup {t}], Killed, TRUE)
            ELSE Attach([detached EXCEPT !.mysqld.restarted = @ \cup {t}], moved, TRUE)
     ELSE IF data.force
       THEN IF outcome = "fails"
              THEN Returns(z, MkError("mysqld", "RestartSlave failed"), TRUE)
            ELSE IF outcome = "killed" THEN Returns(restarted, Killed, TRUE)
            ELSE Attach(restarted, caughtUp, TRUE)
     ELSE Attach(z, tablet, FALSE)

\* tabletmanager.Scrap on tablet t
Scrap(z, t, force) ==
  LET tablet == z.tablets[t]
      wasIdle == tablet.type = TYPE_IDLE
      scrapped == [tablet EXCEPT !.type = TYPE_SCRAP, !.parent = ""]
      del == ZkDeletePath(z.graph, ReplicationPath(tablet, t))
      updated == [z EXCEPT !.tablets[t] = scrapped]
  IN IF wasIdle THEN Returns(updated, NilError, FALSE)
     ELSE IF del.err = ZNOTEMPTY /\ scrapped.parent = "" /\ force
       THEN Returns(updated, NilError, FALSE)
     ELSE Returns([updated EXCEPT !.graph = del.graph], NilError, FALSE)

\* the types ChangeType moves a tablet between: the serving and spare types
\* among themselves, and a scrapped tablet back to idle
IsTrivialTypeChange(oldType, newType) ==
  \/ /\ oldType \in {TYPE_REPLICA, TYPE_RDONLY, TYPE_SPARE, TYPE_LAG}
     /\ newType \in {TYPE_REPLICA, TYPE_RDONLY, TYPE_SPARE, TYPE_LAG}
  \/ oldType = TYPE_SCRAP /\ newType = TYPE_IDLE

\* tabletmanager.ChangeType on tablet t
ChangeType(z, t, newType) ==
  LET tablet == z.tablets[t]
      path == ReplicationPath(tablet, t)
  IN IF ~IsTrivialTypeChange(tablet.type, newType)
       THEN Returns(z, MkError("fmt", "cannot change tablet type"), FALSE)
     ELSE IF newType = TYPE_IDLE
       THEN IF tablet.parent = "" /\ path \in z.graph /\ HasChildren(z.graph, path)
              THEN Returns(z, MkError("fmt", "reparent action has not finished"), FALSE)
              ELSE Returns([z EXCEPT !.tablets[t] =
                              [type |-> newType, parent |-> "", keyRange |-> ""]],
                           NilError, FALSE)
     ELSE Returns([z EXCEPT !.tablets[t].type = newType], NilError, FALSE)

\* dispatchAction: the handler of a tablet action has run with result r
Dispatched(action, t, r, data) ==
  /\ last.n < MaxActions
  /\ tablets' = r.z.tablets
  /\ graph' = r.z.graph
  /\ rsd' = r.z.rsd
  /\ mysqld' = r.z.mysqld
  /\ last' = [n |-> last.n + 1, action |-> action, tablet |-> t, err |-> r.err,
              mysqldCalled |-> r.mysqldCalled, data |-> data]
  /\ UNCHANGED <<serviceVars, target, node, logDir, log, logCreates, actorVars, shard, wr, hist, other>>

PromoteSlaveAction(t, outcome) ==
  Dispatched("PromoteSlave", t, promoteSlave(Topology, t, outcome), NoRestartSlaveData)

\* the RestartSlaveData an action's arguments may carry: none (the file is
\* read), or the data of a reparent to the second tablet
RestartSlaveArgs ==
  {NoRestartSlaveData}
    \cup {[exists |-> TRUE, parent |-> TabletOrder[2], force |-> f] : f \in BOOLEAN}

RestartSlaveAction(t, args, outcome) ==
  Dispatched("RestartSlave", t, restartSlave(Topology, t, args, outcome),
             RestartSlaveDataOf(Topology, args))

ScrapAction(t, force) ==
  Dispatched("Scrap", t, Scrap(Topology, t, force), NoRestartSlaveData)

ChangeTypeAction(t, newType) ==
  Dispatched("ChangeType", t, ChangeType(Topology, t, newType), NoRestartSlaveData)

AgentNext ==
  \/ \E t \in Tablets, outcome \in MysqldOutcomes : PromoteSlaveAction(t, outcome)
  \/ \E t \in Tablets, args \in RestartSlaveArgs, outcome \in MysqldOutcomes :
       RestartSlaveAction(t, args, outcome)
  \/ \E t \in Tablets, force \in BOOLEAN : ScrapAction(t, force)
  \/ \E t \in Tablets, newType \in {TYPE_SPARE, TYPE_LAG, TYPE_IDLE} :
       ChangeTypeAction(t, newType)

\* Wrangler.RebuildShardGraph: the shard record rebuilt from the shard's tablets
RebuildShardGraph ==
  /\ last.n < MaxActions
  /\ LET r == Rebuild(shard, ShardTablets(tablets)) IN
     /\ shard' = r.shard
     /\ last' = [n |-> last.n + 1, action |-> "Rebuild", tablet |-> "", err |-> r.err,
                 mysqldCalled |-> FALSE, data |-> NoRestartSlaveData]
  /\ UNCHANGED <<serviceVars, target, node, logDir, log, logCreates, actorVars, tablets, wr, hist,
                 other, graph, rsd, mysqld>>

\* the tablet actions of a reparent, and the rebuild that follows them
ReparentNext ==
  \/ \E t \in Tablets, outcome \in MysqldOutcomes : PromoteSlaveAction(t, outcome)
  \/ \E t \in Tablets, args \in RestartSlaveArgs, outcome \in MysqldOutcomes :
       RestartSlaveAction(t, args, outcome)
  \/ RebuildShardGraph

\* The tablets' agents run the tablet actions queued for them, one at a time.
\* The shard has a master, two replicas and a lagging slave.
InitAgent ==
  /\ target = "tablet"
  /\ node = QueuedNode
  /\ logDir = FALSE
  /\ log = NoLog
  /\ logCreates = 0
  /\ actors = [a \in Actors |-> IdleActor]
  /\ tablets = [InitTablets EXCEPT ![TabletOrder[4]].type = TYPE_LAG]
  /\ shard = InitShard
  /\ wr = IdleWrangler
  /\ hist = NoHistory
  /\ other = IdleOther
  /\ graph = InitGraph
  /\ rsd = NoRestartSlaveData
  /\ mysqld = IdleMysqld
  /\ last = NoAction
  /\ ServicesIdle

SpecAgent == InitAgent /\ [][AgentNext]_vars

\* Wrangler.ChangeType and Wrangler.Scrap (src/unnamed/part_000 49-100,
\* 173-210): the wrangler changes a tablet directly (force) or queues the
\* tablet action, waits for it, and rebuilds the serving graph.

\* Tablet.IsServingType
IsServingType(type) == type \in {TYPE_MASTER, TYPE_REPLICA, TYPE_RDONLY}

\* what happens to the change itself: it runs, the zk update or the handler
\* fails, the action cannot be queued, the wait for it times out
ActionOutcomes == {"ran", "fails", "initiateFails", "timeout"}

HookOutcomes == {"ok", "idleFails", "liveFails"}

RebuildOutcomes == {"ok", "shardFails", "keyspaceFails"}

WranglerOutcomes ==
  [action : ActionOutcomes, hook : HookOutcomes, rebuild : RebuildOutcomes]

\* the error of the change: of the direct call when forced, else of
\* wr.ai.ChangeType / wr.ai.Scrap or of WaitForCompletion
ActionErr(o, handled) ==
  IF o.action = "fails" THEN MkError("zk", "change failed")
  ELSE IF o.action = "initiateFails" THEN MkError("zk", "action not queued")
  ELSE IF o.action = "timeout" THEN MkError("timeout", "action timed out")
  ELSE handled.err

\* the topology after the change was tried
AfterAction(z, o, handled) == IF o.action = "ran" THEN handled.z ELSE z

\* the err that Wrangler.ChangeType tests after the if/else (lines 86-88): the
\* function's err, which the forced branch assigns; the other branch declares
\* its own with "actionPath, err :=" and assigns only that one
ErrAfterBranch(force, actionErr) == IF force THEN actionErr ELSE NilError

\* RebuildShardGraph and RebuildKeyspaceGraph at the end of both operations:
\* what the wrangler call leaves and returns
RebuildBoth(z, sh, o, actionErr) ==
  LET rb == Rebuild(sh, ShardTablets(z.tablets))
      shardErr == IF o.rebuild = "shardFails" THEN MkError("zk", "shard rebuild failed")
                  ELSE rb.err
  IN [z |-> z, shard |-> IF o.rebuild = "shardFails" THEN sh ELSE rb.shard,
      actionErr |-> actionErr, rebuiltShard |-> TRUE,
      rebuiltKeyspace |-> shardErr = NilError,
      ret |-> IF shardErr # NilError THEN shardErr
              ELSE IF o.rebuild = "keyspaceFails"
                THEN MkError("zk", "keyspace rebuild failed")
              ELSE NilError]

\* a return before any rebuild
NoRebuild(z, sh, actionErr, ret) ==
  [z |-> z, shard |-> sh, actionErr |-> actionErr, rebuiltShard |-> FALSE,
   rebuiltKeyspace |-> FALSE, ret |-> ret]

\* Wrangler.ChangeType(zkTabletPath, dbType, force)
WranglerChangeType(z, sh, t, dbType, force, o) ==
  LET ti == z.tablets[t]
      rebuildRequired == IsServingType(ti.type)
      handled == ChangeType(z, t, dbType)
      actionErr == ActionErr(o, handled)
      after == AfterAction(z, o, handled)
      err == ErrAfterBranch(force, actionErr)
  IN IF ~force /\ ti.type = TYPE_IDLE /\ o.hook = "idleFails"
       THEN NoRebuild(z, sh, NilError, MkError("hook", "idle_server_check failed"))
     ELSE IF ~force /\ dbType # TYPE_SCRAP /\ o.hook = "liveFails"
       THEN NoRebuild(z, sh, NilError, MkError("hook", "live_server_check failed"))
     ELSE IF err # NilError THEN NoRebuild(after, sh, actionErr, err)
     ELSE IF ~rebuildRequired THEN NoRebuild(after, sh, actionErr, NilError)
     ELSE RebuildBoth(after, sh, o, actionErr)

\* Wrangler.Scrap(zkTabletPath, force, skipRebuild)
WranglerScrap(z, sh, t, force, skipRebuild, o) ==
  LET ti == z.tablets[t]
      rebuildRequired == IsServingType(ti.type)
      handled == Scrap(z, t, force)
      actionErr == ActionErr(o, handled)
      after == AfterAction(z, o, handled)
      queued == ~force /\ o.action # "initiateFails"
      \* err after the if/else: of tm.Scrap or of wr.ai.Scrap
      err == IF force THEN actionErr
             ELSE IF o.action = "initiateFails" THEN actionErr ELSE NilError
  IN IF ~rebuildRequired \/ skipRebuild
       THEN NoRebuild(IF force THEN after ELSE z, sh,
                      IF queued THEN NilError ELSE actionErr, err)
     ELSE IF queued /\ actionErr # NilError
       THEN NoRebuild(after, sh, actionErr, NilError)
     ELSE RebuildBoth(after, sh, o, actionErr)

\* the wrangler call has returned: the tablets and the shard record it
\* leaves, and what it did
WranglerReturns(op, t, force, r) ==
  /\ last.n < MaxActions
  /\ tablets' = r.z.tablets
  /\ graph' = r.z.graph
  /\ shard' = r.shard
  /\ wr' = [pc |-> "done", op |-> op, force |-> force, tablet |-> t,
            serving |-> IsServingType(tablets[t].type),
            actionErr |-> r.actionErr, rebuiltShard |-> r.rebuiltShard,
            rebuiltKeyspace |-> r.rebuiltKeyspace, ret |-> r.ret]
  /\ last' = [last EXCEPT !.n = @ + 1, !.action = op, !.tablet = t, !.err = r.ret]
  /\ UNCHANGED <<target, node, logDir, log, logCreates, actors, hist, other, rsd, mysqld,
                 serviceVars>>

\* the outcomes that can happen to a forced and to a queued change
Possible(force, o) == force => o.action \in {"ran", "fails"} /\ o.hook = "ok"

WranglerChangeTypeCall(t, dbType, force, o) ==
  /\ Possible(force, o)
  /\ WranglerReturns("ChangeType", t, force,
                     WranglerChangeType(Topology, shard, t, dbType, force, o))

WranglerScrapCall(t, force, skipRebuild, o) ==
  /\ Possible(force, o)
  /\ o.hook = "ok"
  /\ WranglerReturns(IF skipRebuild THEN "ScrapSkipRebuild" ELSE "Scrap", t, force,
                     WranglerScrap(Topology, shard, t, force, skipRebuild, o))

WranglerOpsNext ==
  \/ \E t \in Tablets, dbType \in {TYPE_SPARE, TYPE_REPLICA, TYPE_IDLE},
        force \in BOOLEAN, o \in WranglerOutcomes :
       WranglerChangeTypeCall(t, dbType, force, o)
  \/ \E t \in Tablets, force \in BOOLEAN, skipRebuild \in BOOLEAN, o \in WranglerOutcomes :
       WranglerScrapCall(t, force, skipRebuild, o)

SpecWranglerOps == InitAgent /\ [][WranglerOpsNext]_vars

TYPE_RESTORE == "restore"

\* the key ranges a split snapshot manifest may carry
SnapshotKeyRanges == {KeyRangeOfShard, "80-"}

\* what fetching the manifest, mysqld.RestoreFromPartialSnapshot and
\* UpdateTablet may do
RestoreOutcomes == {"ok", "fetchFails", "restoreFails", "updateFails"}

\* a partial restore that leaves the tablet its key range
partialRestoreKeepsKeyRange(z, t, src, par, keyRange, outcome) ==
  LET tablet == z.tablets[t]
      restored == [type |-> TYPE_SPARE, parent |-> par, keyRange |-> tablet.keyRange]
      cre == ZkCreatePath(z.graph, ReplicationPath(restored, t))
  IN IF tablet.type # TYPE_RESTORE
       THEN Returns(z, MkError("fmt", "expected restore type"), FALSE)
     ELSE IF z.tablets[par].type # TYPE_MASTER
       THEN Returns(z, MkError("fmt", "restore expected master parent"), FALSE)
     ELSE IF outcome = "fetchFails"
       THEN Returns(z, MkError("fetch", "manifest not fetched"), FALSE)
     ELSE IF outcome = "restoreFails"
       THEN Returns(z, MkError("mysqld", "RestoreFromPartialSnapshot failed"), TRUE)
     ELSE IF outcome = "updateFails"
       THEN Returns(z, MkError("zk", "UpdateTablet failed"), TRUE)
     ELSE Returns([z EXCEPT !.tablets[t] = restored, !.graph = cre.graph],
                  IF cre.err \notin {NilError, ZNODEEXISTS} THEN cre.err ELSE NilError,
                  TRUE)

\* TabletActor.partialRestore on tablet t: src is the tablet the snapshot was
\* taken from (SrcTabletPath), par the tablet of zkParentPath, keyRange the
\* key range of the manifest
partialRestore(z, t, src, par, keyRange, outcome) ==
  LET tablet == z.tablets[t]
      restored == [type |-> TYPE_SPARE, parent |-> par, keyRange |-> keyRange]
      cre == ZkCreatePath(z.graph, ReplicationPath(restored, t))
  IN IF tablet.type # TYPE_RESTORE
       THEN Returns(z, MkError("fmt", "expected restore type"), FALSE)
     ELSE IF z.tablets[par].type # TYPE_MASTER
       THEN Returns(z, MkError("fmt", "restore expected master parent"), FALSE)
     ELSE IF outcome = "fetchFails"
       THEN Returns(z, MkError("fetch", "manifest not fetched"), FALSE)
     ELSE IF outcome = "restoreFails"
       THEN Returns(z, MkError("mysqld", "RestoreFromPartialSnapshot failed"), TRUE)
     ELSE IF outcome = "updateFails"
       THEN Returns(z, MkError("zk", "UpdateTablet failed"), TRUE)
     ELSE Returns([z EXCEPT !.tablets[t] = restored, !.graph = cre.graph],
                  IF cre.err \notin {NilError, ZNODEEXISTS} THEN cre.err ELSE NilError,
                  TRUE)

PartialRestoreAction(t, src, par, keyRange, outcome) ==
  Dispatched("PartialRestore", t, partialRestore(Topology, t, src, par, keyRange, outcome),
             [source |-> src, parent |-> par, keyRange |-> keyRange])

\* a tablet is made ready for a restore: its record gets the restore type
\* (the tablet is idle and out of the replication graph)
PrepareRestore(t) ==
  /\ tablets[t].type = TYPE_IDLE
  /\ Dispatched("PrepareRestore", t,
                Returns([Topology EXCEPT !.tablets[t].type = TYPE_RESTORE], NilError, FALSE),
                NoRestartSlaveData)

PartialRestoreNext ==
  \/ \E t \in Tablets :
       \E src \in Tablets \ {t}, par \in Tablets \ {t},
          keyRange \in SnapshotKeyRanges, outcome \in RestoreOutcomes :
         PartialRestoreAction(t, src, par, keyRange, outcome)
  \/ \E t \in Tablets : PrepareRestore(t)
  \/ \E t \in Tablets, force \in BOOLEAN : ScrapAction(t, force)
  \/ \E t \in Tablets, newType \in {TYPE_SPARE, TYPE_IDLE} : ChangeTypeAction(t, newType)

\* a shard with a master and two replicas, and an idle tablet
InitPartialRestore ==
  /\ target = "tablet"
  /\ node = QueuedNode
  /\ logDir = FALSE
  /\ log = NoLog
  /\ logCreates = 0
  /\ actors = [a \in Actors |-> IdleActor]
  /\ tablets = [InitTablets EXCEPT ![TabletOrder[4]] =
                                     [type |-> TYPE_IDLE, parent |-> "", keyRange |-> ""]]
  /\ shard = InitShard
  /\ wr = IdleWrangler
  /\ hist = NoHistory
  /\ other = IdleOther
  /\ graph = InitGraph \ {ReplicationPath(InitTablets[TabletOrder[4]], TabletOrder[4])}
  /\ rsd = NoRestartSlaveData
  /\ mysqld = IdleMysqld
  /\ last = NoAction
  /\ ServicesIdle

SpecPartialRestore == InitPartialRestore /\ [][PartialRestoreNext]_vars

SpecReparent == InitAgent /\ [][ReparentNext]_vars

\* ShardInfo.Rebuild on any list of member tablets: each member has one of the
\* types a rebuild tells apart, or another one, and one of two key ranges.
MemberTablets ==
  [Tablets -> [type : {TYPE_MASTER, TYPE_REPLICA, TYPE_RDONLY, TYPE_SPARE},
               parent : {""},
               keyRange : {KeyRangeOfShard, "80-"}]]

\* what the shard record may hold before a rebuild: nothing, or stale aliases
PriorRecords ==
  {newShard,
   [MasterAlias |-> TabletOrder[4], ReplicaAliases |-> <<TabletOrder[1]>>,
    RdonlyAliases |-> <<TabletOrder[2]>>, KeyRange |-> "80-"]}

InitRebuild ==
  /\ target = "shard"
  /\ node = NoNode
  /\ logDir = FALSE
  /\ log = NoLog
  /\ logCreates = 0
  /\ actors = [a \in Actors |-> IdleActor]
  /\ tablets \in MemberTablets
  /\ shard \in PriorRecords
  /\ wr = IdleWrangler
  /\ hist = NoHistory
  /\ other = IdleOther
  /\ graph = {}
  /\ rsd = NoRestartSlaveData
  /\ mysqld = IdleMysqld
  /\ last = NoAction
  /\ ServicesIdle

SpecRebuild == InitRebuild /\ [][RebuildShardGraph]_vars

\* ------------------------------------------------------- validator
\* Wrangler.ValidateShard without pingTablets: validateShard and the goroutines
\* it starts send their results on a buffered channel, waitForResults receives
\* them until the wait group is done or the deadline fires.

\* capacity of the results channel (make(chan vresult, 16)), scaled down
ResultsBuffer == 2

VResult(zkPath, failed) == [zkPath |-> zkPath, failed |-> failed]

ValidationErrors == MkError("fmt", "some validation errors - see log")

TimedOut == MkError("fmt", "timed out during validate")

\* validateShard, the loop over aliases: the first tablet without a parent
ObservedMaster(tbl) ==
  LET roots == {i \in DOMAIN TabletOrder : tbl[TabletOrder[i]].parent = ""}
  IN IF roots = {} THEN ""
     ELSE TabletOrder[CHOOSE i \in roots : \A j \in roots : i <= j]

\* the results validateShard itself sends before it starts the tablet checks
ShardResults(si, tbl) ==
  LET masterAlias == ObservedMaster(tbl)
      extra == SelectSeq(TabletOrder,
                         LAMBDA t : tbl[t].parent = "" /\ t # masterAlias)
  IN [i \in 1..Len(extra) |-> VResult(extra[i], TRUE)]
     \o (IF masterAlias = "" \/ si.MasterAlias # masterAlias
          THEN <<VResult("shard", TRUE)>> ELSE <<>>)

\* Wrangler.ValidateShard: the channel, the wait group, go validateShard;
\* ReadShard fails or not
ValidateShard ==
  /\ validator.pc = "idle"
  /\ \E readErr \in BOOLEAN :
       validator' = [IdleValidator EXCEPT
                       !.pc = "waiting", !.wg = 1, !.shardPc = "running",
                       !.spawn = ~readErr,
                       !.pending = IF readErr THEN <<VResult("shard", TRUE)>>
                                   ELSE ShardResults(shard, tablets)]
  /\ UNCHANGED <<coreVars, notValidator>>

\* results <- vresult{...} in validateShard: blocks while the channel is full
SendResult ==
  /\ validator.shardPc = "running"
  /\ validator.pending # <<>>
  /\ Len(validator.results) < ResultsBuffer
  /\ validator' = [validator EXCEPT !.results = Append(@, Head(validator.pending)),
                                    !.pending = Tail(@),
                                    !.sent = @ + 1,
                                    !.reported = @ \/ Head(validator.pending).failed]
  /\ UNCHANGED <<coreVars, notValidator>>

\* validateShard starts one goroutine for each alias and returns; its caller
\* calls wg.Done
StartChecks ==
  /\ validator.shardPc = "running"
  /\ validator.pending = <<>>
  /\ validator' = [validator EXCEPT
                     !.shardPc = "returned",
                     !.checks = IF validator.spawn
                                  THEN [t \in Tablets |-> "running"] ELSE @,
                     !.wg = IF validator.spawn
                              THEN @ + Cardinality(Tablets) - 1 ELSE @ - 1]
  /\ UNCHANGED <<coreVars, notValidator>>

\* go func() { results <- vresult{path, tm.Validate(...)}; wg.Done() }()
CheckTablet(t) ==
  /\ validator.checks[t] = "running"
  /\ Len(validator.results) < ResultsBuffer
  /\ \E failed \in BOOLEAN :
       validator' = [validator EXCEPT !.results = Append(@, VResult(t, failed)),
                                      !.checks[t] = "sent",
                                      !.wg = @ - 1,
                                      !.sent = @ + 1,
                                      !.reported = @ \/ failed]
  /\ UNCHANGED <<coreVars, notValidator>>

\* go func() { wg.Wait(); done <- true }()
WaitGroupDone ==
  /\ validator.pc # "idle"
  /\ validator.wg = 0
  /\ validator.done = "no"
  /\ validator' = [validator EXCEPT !.done = "sent"]
  /\ UNCHANGED <<coreVars, notValidator>>

\* case vd := <-results, in the wait loop and in the drain loop
ReceiveResult ==
  /\ validator.pc \in {"waiting", "draining"}
  /\ validator.results # <<>>
  /\ validator' = [validator EXCEPT
                     !.results = Tail(@),
                     !.received = @ + 1,
                     !.err = IF Head(validator.results).failed
                               THEN ValidationErrors ELSE @]
  /\ UNCHANGED <<coreVars, notValidator>>

\* case <-timer.C: break wait
DeadlineFires ==
  /\ validator.pc = "waiting"
  /\ validator' = [validator EXCEPT !.pc = "returned", !.err = TimedOut,
                                    !.unread = Len(validator.results)]
  /\ UNCHANGED <<coreVars, notValidator>>

\* a wait loop that ends on done without draining the channel
ReceiveDoneNoDrain ==
  /\ validator.pc = "waiting"
  /\ validator.done = "sent"
  /\ validator' = [validator EXCEPT !.pc = "returned", !.done = "received",
                                    !.unread = Len(validator.results)]
  /\ UNCHANGED <<coreVars, notValidator>>

\* case <-done
ReceiveDone ==
  /\ validator.pc = "waiting"
  /\ validator.done = "sent"
  /\ validator' = [validator EXCEPT !.pc = "draining", !.done = "received"]
  /\ UNCHANGED <<coreVars, notValidator>>

\* default: break wait, in the drain loop
DrainedAll ==
  /\ validator.pc = "draining"
  /\ validator.results = <<>>
  /\ validator' = [validator EXCEPT !.pc = "returned", !.unread = 0]
  /\ UNCHANGED <<coreVars, notValidator>>

ValidateNext ==
  \/ ValidateShard
  \/ SendResult
  \/ StartChecks
  \/ \E t \in Tablets : CheckTablet(t)
  \/ WaitGroupDone
  \/ ReceiveResult
  \/ DeadlineFires
  \/ ReceiveDone
  \/ DrainedAll

\* the shards a validation may find: sound, or with a second tablet without a
\* parent, or with a record that names another master
InitValidate ==
  /\ target = "shard"
  /\ node = NoNode
  /\ logDir = FALSE
  /\ log = NoLog
  /\ logCreates = 0
  /\ actors = [a \in Actors |-> IdleActor]
  /\ tablets \in {InitTablets, [InitTablets EXCEPT ![TabletOrder[2]].parent = ""]}
  /\ shard \in {InitShard, [InitShard EXCEPT !.MasterAlias = TabletOrder[2]]}
  /\ wr = IdleWrangler
  /\ hist = NoHistory
  /\ other = IdleOther
  /\ graph = InitGraph
  /\ rsd = NoRestartSlaveData
  /\ mysqld = IdleMysqld
  /\ last = NoAction
  /\ ServicesIdle

SpecValidate == InitValidate /\ [][ValidateNext]_vars

\* ------------------------------------------------------- binlog parser
\* Blp reads the decoded binlog line by line and sends events to its
\* subscriber.  version "server" is the parser of the binlog server
\* (vt_binlog_server), version "updatestream" the one of package mysqlctl.

\* number of statements the decoded binlog holds
MaxStatements == 4

\* a line of the decoded binlog: "# at", "# ... end_log_pos n [Xid = x]" (start:
\* the "Start: binlog" line), "# ... Rotate to <prefix>.<n> pos: 4", or a
\* statement; id stands for the text of the line
Line(kind) ==
  [kind |-> kind, n |-> 0, prefix |-> "", xid |-> 0, start |-> FALSE, db |-> "",
   ksid |-> 0, id |-> 0]

\* the lines the decoder prints for the id-th statement, written at w; a use
\* line comes under the header of the event that changes the database
StatementLines(stmt, w, id) ==
  LET at == [Line("at") EXCEPT !.n = w.offset]
      endLogPos == [Line("end_log_pos") EXCEPT
                      !.n = w.offset + 1,
                      !.xid = IF stmt.kind = "commit" THEN id ELSE 0]
      startLine == [Line("end_log_pos") EXCEPT !.n = 5, !.start = TRUE]
      set == [Line("set_timestamp") EXCEPT !.id = id]
      query == [Line(stmt.kind) EXCEPT !.db = stmt.db, !.ksid = stmt.ksid, !.id = id]
  IN CASE stmt.kind = "rotate" ->
            <<at, [Line("rotate") EXCEPT !.prefix = "master", !.n = w.file + 1],
              [Line("at") EXCEPT !.n = 4], startLine>>
       [] stmt.kind = "rotate_relay" ->
            <<[Line("rotate") EXCEPT !.prefix = "relay", !.n = w.relay + 1], startLine>>
       [] stmt.kind \in {"use", "commit"} -> <<at, endLogPos, query>>
       [] OTHER -> <<at, endLogPos, set, query>>

\* the binlog after the statement was written to it; the statement is kept
\* with the coordinates its header line gives (the end of its event)
Written(w, stmt) ==
  LET relay == IF stmt.kind = "rotate_relay" THEN w.relay + 1 ELSE w.relay
      file == IF stmt.kind = "rotate" THEN w.file + 1 ELSE w.file
      offset == CASE stmt.kind = "rotate" -> 5
                  [] stmt.kind = "rotate_relay" -> w.offset
                  [] OTHER -> w.offset + 1
  IN [stmts |-> Append(w.stmts, [kind |-> stmt.kind, db |-> stmt.db, ksid |-> stmt.ksid,
                                 relay |-> w.relay, file |-> w.file, offset |-> offset]),
      relay |-> relay, file |-> file, offset |-> offset]

\* an event buffer that takes the start position instead of the current one
NewEventBufferAtStart(b, line) ==
  [pos |-> IdleBlp.currentPosition, kind |-> line.kind, ksid |-> line.ksid,
   id |-> line.id]

\* NewEventBuffer: the line with a copy of the current coordinates
NewEventBuffer(b, line) ==
  [pos |-> [b.currentPosition EXCEPT !.xid = 0], kind |-> line.kind,
   ksid |-> line.ksid, id |-> line.id]

\* a BinlogResponse / UpdateResponse made of an event of the buffer
Response(type, event) ==
  [type |-> type, pos |-> event.pos, id |-> event.id, ksid |-> event.ksid]

\* a panic that sends the error record and lets the parser go on
PanicKeepsParsing(b) ==
  [b EXCEPT !.sent = Append(@, [type |-> "error", pos |-> b.currentPosition,
                                id |-> 0, ksid |-> 0])]

\* panic(NewBinlogParseError(...)): the deferred function of streamBinlog sends
\* the error with the current position, and the stream ends
Panic(b) ==
  [b EXCEPT !.pc = "closed",
            !.sent = Append(@, [type |-> "error", pos |-> b.currentPosition,
                                id |-> 0, ksid |-> 0])]

parseRotateEvent(b, line) ==
  IF ~b.usingRelayLogs \/ line.prefix # "relay"
    THEN [b EXCEPT !.currentPosition.file = line.n, !.currentPosition.offset = 4]
    ELSE [b EXCEPT !.currentPosition.relay = line.n]

parsePositionData(b, line) ==
  CASE line.kind = "at" ->
         IF b.version = "server" \/ b.nextStmtPosition = 0 THEN b
         ELSE [b EXCEPT !.currentPosition.offset = b.nextStmtPosition]
    [] line.kind = "rotate" -> parseRotateEvent(b, line)
    [] OTHER ->
         IF line.start THEN b
         ELSE [b EXCEPT
                 !.nextStmtPosition = line.n,
                 !.currentPosition.offset =
                    IF b.version = "server" /\ line.n # 0 THEN line.n ELSE @,
                 !.currentPosition.xid = IF line.xid # 0 THEN line.xid ELSE @]

parseDbChange(b, line) ==
  IF line.kind # "use" \/ Subscription.dbname = "" THEN b
  ELSE IF b.version = "server"
    THEN [b EXCEPT !.dbmatch = (line.db = Subscription.dbname)]
    ELSE [b EXCEPT !.dbmatch = IF line.db # Subscription.dbname THEN FALSE ELSE @]

\* buildTxnResponse: the responses for the events of the buffer from index i
\* on; the server keeps the DMLs whose keyspace id the key range contains
RECURSIVE buildTxnResponse(_, _, _, _)
buildTxnResponse(b, buffer, i, acc) ==
  IF i > Len(buffer) THEN acc
  ELSE LET event == buffer[i] IN
    buildTxnResponse(b, buffer, i + 1,
      CASE event.kind = "begin" -> [acc EXCEPT !.list = Append(@, Response("begin", event))]
        [] event.kind = "commit" -> [acc EXCEPT !.list = Append(@, Response("commit", event))]
        [] event.kind = "dml" ->
             IF b.version = "server" /\ ~(Subscription.start <= event.ksid
                                          /\ event.ksid < Subscription.end)
               THEN acc
               ELSE [list |-> Append(acc.list, Response("dml", event)),
                     dmlCount |-> acc.dmlCount + 1]
        [] OTHER -> acc)

\* a rollback that leaves the buffered events where they are
RollbackKeepsBuffer(b) == [b EXCEPT !.inTxn = FALSE]

\* parseEventData on ROLLBACK
Rollback(b) == [b EXCEPT !.inTxn = FALSE, !.txnLineBuffer = <<>>]

\* handleCommitEvent: "No dmls matched the keyspace id so return" (server),
\* "Only Begin and Commit events - no point in sending this" (updatestream)
NothingToSend(b, r) ==
  IF b.version = "server" THEN r.dmlCount = 0 ELSE Len(r.list) <= 2

\* handleCommitEvent; parseEventData (server) or handleCommitEvent itself
\* (updatestream) then empties the buffer
handleCommitEvent(b, line) ==
  IF b.version = "server" /\ ~b.dbmatch THEN b
  ELSE LET commitEvent == [NewEventBuffer(b, line) EXCEPT !.pos.xid = b.currentPosition.xid]
           buffer == Append(b.txnLineBuffer, commitEvent)
           r == buildTxnResponse(b, buffer, 1, [list |-> <<>>, dmlCount |-> 0])
       IN [b EXCEPT !.txnLineBuffer = buffer,
                    !.sent = IF NothingToSend(b, r) THEN @ ELSE @ \o r.list]

\* Blp.parseEventData of the binlog server; a statement in a transaction is
\* kept when it is a DML (IsTxnStatement)
parseEventData(b, line) ==
  LET event == NewEventBuffer(b, line) IN
  CASE line.kind = "set_timestamp" ->
         [b EXCEPT !.initialSeek = FALSE,
                   !.txnLineBuffer = IF b.inTxn THEN Append(@, event) ELSE @]
    [] line.kind = "begin" ->
         IF b.txnLineBuffer # <<>> /\ b.inTxn THEN Panic(b)
         ELSE [b EXCEPT !.inTxn = TRUE, !.txnLineBuffer = <<event>>]
    [] line.kind = "rollback" -> Rollback(b)
    [] line.kind = "commit" ->
         [handleCommitEvent(b, line) EXCEPT !.inTxn = FALSE, !.txnLineBuffer = <<>>]
    [] OTHER ->
         IF b.inTxn /\ line.kind = "dml"
           THEN [b EXCEPT !.txnLineBuffer = Append(@, event)]
         ELSE IF line.kind = "ddl"
           THEN [b EXCEPT !.sent = Append(@, Response("ddl", event))]
         ELSE IF line.kind = "dml" THEN Panic(b)
         ELSE b

\* Blp.parseEventData, handleBeginEvent and handleTxnEvent of package mysqlctl
parseEventDataUpdateStream(b, line) ==
  LET event == NewEventBuffer(b, line) IN
  CASE line.kind = "set_timestamp" -> [b EXCEPT !.initialSeek = FALSE]
    [] line.kind = "begin" ->
         IF b.txnLineBuffer # <<>> \/ b.inTxn THEN Panic(b)
         ELSE [b EXCEPT !.inTxn = TRUE, !.txnLineBuffer = <<event>>]
    [] line.kind = "rollback" -> Rollback(b)
    [] OTHER ->
         IF b.inTxn
           THEN CASE line.kind = "commit" ->
                       [handleCommitEvent(b, line) EXCEPT !.inTxn = FALSE,
                                                          !.txnLineBuffer = <<>>]
                  [] line.kind = "dml" -> [b EXCEPT !.txnLineBuffer = Append(@, event)]
                  [] OTHER -> b
         ELSE IF line.kind = "ddl"
           THEN [b EXCEPT !.sent = Append(@, Response("ddl", event))]
         ELSE b

\* parseBinlogEvents: one turn of the loop
ParseLine(b, line) ==
  IF b.pc # "parsing" THEN b
  ELSE IF line.kind \in {"at", "rotate", "end_log_pos"} THEN parsePositionData(b, line)
  ELSE IF b.initialSeek /\ b.usingRelayLogs
          /\ b.nextStmtPosition < Subscription.offset THEN b
  ELSE LET c == parseDbChange(b, line) IN
       IF b.version = "server" THEN parseEventData(c, line)
       ELSE IF ~c.dbmatch THEN c
       ELSE parseEventDataUpdateStream(c, line)

RECURSIVE parseBinlogEvents(_, _, _)
parseBinlogEvents(b, lines, i) ==
  IF i > Len(lines) THEN b
  ELSE parseBinlogEvents(ParseLine(b, lines[i]), lines, i + 1)

\* the statements that may come next in the binlog
Statements(usingRelayLogs) ==
  {[kind |-> k, db |-> "", ksid |-> 0] : k \in {"begin", "commit", "rollback", "ddl", "rotate"}}
  \cup {[kind |-> "dml", db |-> "", ksid |-> k] : k \in {64, 160}}
  \cup {[kind |-> "use", db |-> d, ksid |-> 0] : d \in {Subscription.dbname, "other"}}
  \cup (IF usingRelayLogs THEN {[kind |-> "rotate_relay", db |-> "", ksid |-> 0]} ELSE {})

\* BinlogServer.ServeBinlog / UpdateStream: a subscriber starts a parser, on
\* the binlogs or on the relay logs
ServeBinlog(version) ==
  /\ blp.pc = "idle"
  /\ \E relay \in BOOLEAN :
       blp' = [IdleBlp EXCEPT !.pc = "parsing", !.version = version,
                              !.usingRelayLogs = relay]
  /\ UNCHANGED <<coreVars, notBinlog, binlog>>

\* the next statement is written, decoded and parsed
ParseStatement ==
  /\ blp.pc = "parsing"
  /\ Len(binlog.stmts) < MaxStatements
  /\ \E stmt \in Statements(blp.usingRelayLogs) :
       /\ binlog' = Written(binlog, stmt)
       /\ blp' = parseBinlogEvents(
                    blp, StatementLines(stmt, binlog, Len(binlog.stmts) + 1), 1)
  /\ UNCHANGED <<coreVars, notBinlog>>

\* readBlpLine returns io.EOF: the server panics with "EOF retry", the update
\* stream returns
EndOfStream ==
  /\ blp.pc = "parsing"
  /\ blp' = IF blp.version = "server" THEN Panic(blp) ELSE [blp EXCEPT !.pc = "closed"]
  /\ UNCHANGED <<coreVars, notBinlog, binlog>>

\* the state before any subscriber has connected
InitBinlog ==
  /\ target = "shard"
  /\ node = NoNode
  /\ logDir = FALSE
  /\ log = NoLog
  /\ logCreates = 0
  /\ actors = [a \in Actors |-> IdleActor]
  /\ tablets = InitTablets
  /\ shard = InitShard
  /\ wr = IdleWrangler
  /\ hist = NoHistory
  /\ other = IdleOther
  /\ graph = InitGraph
  /\ rsd = NoRestartSlaveData
  /\ mysqld = IdleMysqld
  /\ last = NoAction
  /\ ServicesIdle

BinlogServerNext == ServeBinlog("server") \/ ParseStatement \/ EndOfStream

SpecBinlogServer == InitBinlog /\ [][BinlogServerNext]_vars

UpdateStreamNext == ServeBinlog("updatestream") \/ ParseStatement \/ EndOfStream

SpecUpdateStream == InitBinlog /\ [][UpdateStreamNext]_vars

\* The throttle of the binlog server (part_003 868-917). Rates are queries
\* per second, sleeps are in milliseconds.

\* binlogServer.throttleRate, 1200 in main(), scaled
ThrottleRate == 4

\* tickerInterval.Seconds()
TickerSeconds == 60

\* what the rate map can hold for a keyrange tag: no entry (-1) or avgRate
RateValues == {-1, 0, 2, 5}

RECURSIVE SumRates(_, _)
SumRates(rates, S) ==
  IF S = {} THEN 0
  ELSE LET c == CHOOSE x \in S : TRUE IN rates[c] + SumRates(rates, S \ {c})

\* the tags that have an entry in the rate map
RateKeys(rates) == {c \in ThrottleClients : rates[c] # -1}

totalQps(rates) == SumRates(rates, RateKeys(rates))

numClients(rates) == Cardinality(RateKeys(rates))

\* krQps > clientMaxQps, where clientMaxQps = throttleRate / numClients
OverShare(rates, c) ==
  rates[c] # -1 /\ rates[c] * numClients(rates) > ThrottleRate

\* time.Duration(int64(val)) * time.Millisecond with
\* val = tickerInterval.Seconds() * ((krQps - clientMaxQps) / krQps)
SleepFor(rates, c) ==
  IF OverShare(rates, c)
    THEN (TickerSeconds * (rates[c] * numClients(rates) - ThrottleRate))
           \div (rates[c] * numClients(rates))
    ELSE 0

\* BinlogServer.ServeBinlog appends the subscriber's parser to the clients
AddClient(c) ==
  /\ c \notin throttle.clients
  /\ throttle' = [throttle EXCEPT !.clients = @ \cup {c}]
  /\ UNCHANGED <<coreVars, notThrottle>>

\* one tick of throttleTicker: it returns, and with it the ticker ends, when
\* there is no client or no ceiling; sleeps are set when the total is over
\* the ceiling and are left as they are otherwise
throttleTicker ==
  /\ throttle.ticker = "running"
  /\ IF throttle.clients = {}
       THEN throttle' = [throttle EXCEPT !.ticker = "stopped", !.tick = 1 - @]
     ELSE IF ThrottleRate = 0
       THEN throttle' = [throttle EXCEPT
                           !.ticker = "stopped", !.tick = 1 - @,
                           !.sleepToThrottle = [c \in ThrottleClients |-> 0]]
     ELSE \E rates \in [ThrottleClients -> RateValues] :
            throttle' = [throttle EXCEPT
                           !.tick = 1 - @,
                           !.krRateMap = rates,
                           !.sleepToThrottle =
                              [c \in ThrottleClients |->
                                 IF totalQps(rates) > ThrottleRate /\ c \in throttle.clients
                                   THEN SleepFor(rates, c)
                                   ELSE throttle.sleepToThrottle[c]]]
  /\ UNCHANGED <<coreVars, notThrottle>>

\* handleCommitEvent, after it has sent a batch: time.Sleep(blp.sleepToThrottle)
SleepToThrottle(c) ==
  /\ c \in throttle.clients
  /\ throttle.slept[c] # throttle.sleepToThrottle[c]
  /\ throttle' = [throttle EXCEPT !.slept[c] = throttle.sleepToThrottle[c]]
  /\ UNCHANGED <<coreVars, notThrottle>>

ThrottleNext ==
  \/ \E c \in ThrottleClients : AddClient(c)
  \/ throttleTicker
  \/ \E c \in ThrottleClients : SleepToThrottle(c)

SpecThrottle == InitBinlog /\ [][ThrottleNext]_vars

\* BinlogReader.ServeData (part_001 232-316) tailing the binlog files that
\* mysqld writes. reader.logs[f] is the size of file f, header included; a
\* byte is named by its file and its offset in it.

\* number of binlog files mysqld makes
MaxLogs == 2

\* event bytes mysqld writes to one file
MaxLogBytes == 2

\* blr.BinlogBlockSize, scaled
BinlogBlockSize == 2

\* mysqld appends a byte of an event to the binlog it is writing
MysqldWrite ==
  /\ reader.logs[Len(reader.logs)] < BINLOG_HEADER_SIZE + MaxLogBytes
  /\ reader' = [reader EXCEPT !.logs[Len(reader.logs)] = @ + 1]
  /\ UNCHANGED <<coreVars, notReader>>

\* mysqld rotates: the next-numbered file appears, with its header
MysqldRotate ==
  /\ Len(reader.logs) < MaxLogs
  /\ reader' = [reader EXCEPT !.logs = Append(@, BINLOG_HEADER_SIZE)]
  /\ UNCHANGED <<coreVars, notReader>>

\* ServeData with startPosition 0: open the file, read from its start
ServeData ==
  /\ reader.pc = "idle"
  /\ reader' = [reader EXCEPT !.pc = "copy", !.file = 1, !.position = 0]
  /\ UNCHANGED <<coreVars, notReader>>

\* the bytes of file f after offset from, up to offset to
LogBytes(f, from, to) == [i \in 1..(to - from) |-> [file |-> f, at |-> from + i]]

\* io.CopyN(writer, binlogFile, blr.BinlogBlockSize) and the test of written
CopyN ==
  /\ reader.pc = "copy"
  /\ LET left == reader.logs[reader.file] - reader.position
         written == IF left < BinlogBlockSize THEN left ELSE BinlogBlockSize
     IN reader' = [reader EXCEPT
                     !.out = @ \o LogBytes(reader.file, reader.position,
                                           reader.position + written),
                     !.position = @ + written,
                     !.pc = IF written # BinlogBlockSize THEN "short" ELSE "copy"]
  /\ UNCHANGED <<coreVars, notReader>>

\* os.Stat(nextLog) after a short read: swap to the next file and seek past
\* its header, or wait for more data
StatNextLog ==
  /\ reader.pc = "short"
  /\ IF reader.file + 1 <= Len(reader.logs)
       THEN reader' = [reader EXCEPT !.pc = "copy", !.file = @ + 1,
                                     !.position = BINLOG_HEADER_SIZE,
                                     !.positionWaitStart = {}]
       ELSE reader' = [reader EXCEPT !.pc = "wait"]
  /\ UNCHANGED <<coreVars, notReader>>

\* time.Sleep(LogWaitTimeout), then the position is noted and the loop goes on
WaitForMoreData ==
  /\ reader.pc = "wait"
  /\ reader' = [reader EXCEPT !.pc = "copy",
                              !.positionWaitStart = @ \cup {reader.position}]
  /\ UNCHANGED <<coreVars, notReader>>

\* MAX_WAIT_TIMEOUT exceeded at a position the reader has waited at before
MaxWaitTimeout ==
  /\ reader.pc = "wait"
  /\ reader.position \in reader.positionWaitStart
  /\ reader' = [reader EXCEPT !.pc = "closed"]
  /\ UNCHANGED <<coreVars, notReader>>

ReaderNext ==
  \/ MysqldWrite
  \/ MysqldRotate
  \/ ServeData
  \/ CopyN
  \/ StatNextLog
  \/ WaitForMoreData
  \/ MaxWaitTimeout

SpecReader == InitBinlog /\ [][ReaderNext]_vars

\* Mysqld.RestoreFromMultiSnapshot (split.go 1019-1146): one goroutine per
\* snapshot file, the named semaphores of a MultiResourceConstraint, its wait
\* group and its ErrorRecorder.

\* number of snapshot files
NumTasks == 3

RestoreTasks == 1..NumTasks

\* lsf.tableName(): the table a file belongs to
TableOf(t) == IF t % 2 = 1 THEN "table-a" ELSE "table-b"

\* sems: the named resources
Resources == {"net", "load", "db", "table-a", "table-b"}

\* fetchConcurrency, loadConcurrency, concurrency, insertTableConcurrency
Concurrency(name) == IF name = "net" THEN 2 ELSE 1

\* sync2.Semaphore.Acquire can take a token
SemCanAcquire(free, name) == free[name] > 0

\* sync2.Semaphore: the tokens left after Acquire, after Release
SemAcquire(free, name) == [free EXCEPT ![name] = @ - 1]

SemRelease(free, name) == [free EXCEPT ![name] = @ + 1]

\* the name a goroutine passes to mrc.Release for the resource it holds
ReleasedAt(held, t) == IF held = "table" THEN TableOf(t) ELSE held

\* a release that puts two tokens back
MrcReleaseTwice(r, t, held) ==
  [r EXCEPT !.free = SemRelease(SemRelease(@, ReleasedAt(held, t)), ReleasedAt(held, t)),
            !.tasks[t].holds = @ \ {ReleasedAt(held, t)}]

\* mrc.Release(name) by goroutine t for the resource it holds
MrcRelease(r, t, held) ==
  [r EXCEPT !.free = SemRelease(@, ReleasedAt(held, t)),
            !.tasks[t].holds = @ \ {ReleasedAt(held, t)}]

\* ErrorRecorder.RecordError of a non-nil error: the first one is kept
ErrorRecorderRecord(r, err) ==
  [r EXCEPT !.errorCount = @ + 1,
            !.firstError = IF r.errorCount = 0 THEN err ELSE @]

\* ErrorRecorder.HasErrors
HasErrors(r) == r.errorCount # 0

\* defer mrc.Done(): the goroutine is over
MrcDone(r, t) == [r EXCEPT !.tasks[t].pc = "done", !.wg = @ - 1]

StartRestore ==
  /\ restore.pc = "idle"
  /\ restore' = [pc |-> "spawning", spawned |-> 0, wg |-> 0, errorCount |-> 0,
                 firstError |-> "", ret |-> "", waited |-> FALSE,
                 free |-> [name \in Resources |-> Concurrency(name)],
                 tasks |-> [t \in RestoreTasks |-> [pc |-> "none", holds |-> {}]]]
  /\ UNCHANGED <<coreVars, notRestore>>

\* mrc.Add(1); go func(manifestIndex, i int)
SpawnTask ==
  /\ restore.pc = "spawning"
  /\ restore.spawned < NumTasks
  /\ restore' = [restore EXCEPT !.spawned = @ + 1, !.wg = @ + 1,
                                !.tasks[restore.spawned + 1].pc = "prepare"]
  /\ UNCHANGED <<coreVars, notRestore>>

\* os.Mkdir for the next manifest fails: return err, with no Wait
MkdirFails ==
  /\ restore.pc = "spawning"
  /\ restore.spawned < NumTasks
  /\ restore' = [restore EXCEPT !.pc = "returned", !.ret = "mkdir"]
  /\ UNCHANGED <<coreVars, notRestore>>

\* the table lookup and the statement templates, before any resource is taken
PrepareTask(t) ==
  /\ restore.pc # "idle"
  /\ restore.tasks[t].pc = "prepare"
  /\ \/ restore' = [restore EXCEPT !.tasks[t].pc = "want_net"]
     \/ restore' = MrcDone(ErrorRecorderRecord(restore, "template"), t)
  /\ UNCHANGED <<coreVars, notRestore>>

\* mrc.Acquire(name): wait for a token of the resource
MrcAcquire(t, held) ==
  /\ restore.pc # "idle"
  /\ restore.tasks[t].pc = "want_" \o held
  /\ LET name == IF held = "table" THEN TableOf(t) ELSE held
     IN /\ SemCanAcquire(restore.free, name)
        /\ restore' = [restore EXCEPT !.free = SemAcquire(@, name),
                                      !.tasks[t].holds = @ \cup {name},
                                      !.tasks[t].pc = held]
  /\ UNCHANGED <<coreVars, notRestore>>

\* with the "net" or the "load" token: give it back at once when another
\* task has recorded an error, else fetch or load the file, give the token
\* back and record the error if there is one
FetchOrLoad(t, held) ==
  /\ restore.pc # "idle"
  /\ held \in {"net", "load"}
  /\ restore.tasks[t].pc = held
  /\ LET r == MrcRelease(restore, t, held)
     IN IF HasErrors(restore)
          THEN restore' = MrcDone(r, t)
          ELSE \/ restore' = [r EXCEPT !.tasks[t].pc =
                                          IF held = "net" THEN "want_load" ELSE "want_table"]
               \/ restore' = MrcDone(ErrorRecorderRecord(r, held), t)
  /\ UNCHANGED <<coreVars, notRestore>>

\* a goroutine that keeps the table token when it returns early
TableLockedNoDefer(t) ==
  /\ restore.pc # "idle"
  /\ restore.tasks[t].pc = "table"
  /\ IF HasErrors(restore)
       THEN restore' = MrcDone(restore, t)
       ELSE restore' = [restore EXCEPT !.tasks[t].pc = "want_db"]
  /\ UNCHANGED <<coreVars, notRestore>>

\* with the table token, whose release is deferred: return when another task
\* has recorded an error, else go for the "db" token
TableLocked(t) ==
  /\ restore.pc # "idle"
  /\ restore.tasks[t].pc = "table"
  /\ IF HasErrors(restore)
       THEN restore' = MrcDone(MrcRelease(restore, t, "table"), t)
       ELSE restore' = [restore EXCEPT !.tasks[t].pc = "want_db"]
  /\ UNCHANGED <<coreVars, notRestore>>

\* with the table and the "db" token: copy into the table unless another
\* task has recorded an error, give "db" back, record the error if there is
\* one; the deferred release gives the table token back
CopyIntoTable(t) ==
  /\ restore.pc # "idle"
  /\ restore.tasks[t].pc = "db"
  /\ LET r == MrcRelease(MrcRelease(restore, t, "db"), t, "table")
     IN IF HasErrors(restore)
          THEN restore' = MrcDone(r, t)
          ELSE \/ restore' = MrcDone(r, t)
               \/ restore' = MrcDone(ErrorRecorderRecord(r, "db"), t)
  /\ UNCHANGED <<coreVars, notRestore>>

\* return mrc.Wait(): every goroutine was started and is over
MrcWait ==
  /\ restore.pc = "spawning"
  /\ restore.spawned = NumTasks
  /\ restore.wg = 0
  /\ restore' = [restore EXCEPT !.pc = "returned", !.ret = restore.firstError,
                                !.waited = TRUE]
  /\ UNCHANGED <<coreVars, notRestore>>

TaskNext(t) ==
  \/ PrepareTask(t)
  \/ \E held \in {"net", "load", "table", "db"} : MrcAcquire(t, held)
  \/ \E held \in {"net", "load"} : FetchOrLoad(t, held)
  \/ TableLocked(t)
  \/ CopyIntoTable(t)

RestoreNext ==
  \/ StartRestore
  \/ SpawnTask
  \/ MkdirFails
  \/ MrcWait
  \/ \E t \in RestoreTasks : TaskNext(t)

SpecRestore == InitBinlog /\ [][RestoreNext]_vars

\* every goroutine is scheduled, and so is the caller blocked in Wait
FairSpecRestore ==
  SpecRestore /\ WF_vars(MrcWait) /\ \A t \in RestoreTasks : WF_vars(TaskNext(t))

\* The action node codec (actor.go 1009-1133). A value is nil or has the Go
\* type the action's variant gives it: a string, a duration or a struct; a
\* JSON document is a string, a number or an object.

\* ActionNodeFromJson's switch: the types of args and reply of an action
ArgsType(action) ==
  CASE action \in {"ChangeType", "PromoteSlave", "WaitSlavePosition"} -> "string"
    [] action = "Sleep" -> "duration"
    [] action \in {"RestartSlave", "ReparentPosition"} -> "struct"
    [] OTHER -> "none"

ReplyType(action) ==
  CASE action \in {"SlavePosition", "ReparentPosition", "WaitSlavePosition"} -> "struct"
    [] OTHER -> "none"

\* the action variants of the model
ActionVariants ==
  {"Ping", "Sleep", "ChangeType", "RestartSlave", "SlavePosition", "ReparentPosition",
   "WaitSlavePosition"}

Nil == [type |-> "nil", v |-> ""]

\* the values of a Go type, nil among them
ValuesOf(type) ==
  {Nil} \cup
  CASE type = "string" -> {[type |-> "string", v |-> x] : x \in {"", "master"}}
    [] type = "duration" -> {[type |-> "duration", v |-> x] : x \in {"0", "5s"}}
    [] type = "struct" -> {[type |-> "struct", v |-> x] : x \in {"zero", "set"}}
    [] OTHER -> {}

\* the action nodes
ActionNodes ==
  {[Action |-> a, ActionGuid |-> "guid", Error |-> e, State |-> st, args |-> x, reply |-> y] :
     a \in ActionVariants, e \in {"", "failed"},
     st \in {"", "Running", "Failed", "Done"},
     x \in UNION {ValuesOf(t) : t \in {"string", "duration", "struct"}},
     y \in ValuesOf("struct")}

\* the nodes of a variant: args and reply are nil or of the variant's types
WellTyped(n) ==
  /\ n.args \in ValuesOf(ArgsType(n.Action))
  /\ n.reply \in ValuesOf(ReplyType(n.Action))

\* jscfg.ToJson of a value; a struct with no field set gives an object of
\* empty fields
ToJson(x) ==
  CASE x.type = "string" -> [json |-> "string", v |-> x.v]
    [] x.type = "duration" -> [json |-> "number", v |-> x.v]
    [] x.type = "struct" -> [json |-> "object", v |-> x.v]
    [] OTHER -> [json |-> "null", v |-> ""]

\* ActionNodeToJson's "{}" for args or reply that are nil
EmptyObject(x) == [json |-> "object", v |-> "{}"]

\* ActionNodeToJson: header, args, reply, one after the other
ActionNodeToJson(n) ==
  <<[json |-> "object",
     v |-> [Action |-> n.Action, ActionGuid |-> n.ActionGuid, Error |-> n.Error,
            State |-> n.State]],
    IF n.args = Nil THEN EmptyObject(n.args) ELSE ToJson(n.args),
    IF n.reply = Nil THEN EmptyObject(n.reply) ELSE ToJson(n.reply)>>

\* decoder.Decode into a value of the type: a JSON document of another kind
\* is an UnmarshalTypeError, an object into no type at all is dropped, "{}"
\* into a struct leaves the struct as new() made it
DecodeInto(type, doc) ==
  CASE type = "none" -> [err |-> "", x |-> Nil]
    [] doc.json = "none" -> [err |-> "EOF", x |-> Nil]
    [] type = "string" ->
         IF doc.json = "string" THEN [err |-> "", x |-> [type |-> "string", v |-> doc.v]]
         ELSE [err |-> "UnmarshalTypeError", x |-> Nil]
    [] type = "duration" ->
         IF doc.json = "number" THEN [err |-> "", x |-> [type |-> "duration", v |-> doc.v]]
         ELSE [err |-> "UnmarshalTypeError", x |-> Nil]
    [] OTHER ->
         IF doc.json = "object"
           THEN [err |-> "", x |-> [type |-> "struct",
                                    v |-> IF doc.v = "{}" THEN "zero" ELSE doc.v]]
           ELSE [err |-> "UnmarshalTypeError", x |-> Nil]

\* ActionNodeFromJson: the node, or the error of the decoder
ActionNodeFromJson(data) ==
  LET header == data[1].v
      decoded == [Action |-> header.Action, ActionGuid |-> header.ActionGuid,
               Error |-> header.Error, State |-> header.State,
               args |-> Nil, reply |-> Nil]
      a == DecodeInto(ArgsType(decoded.Action), data[2])
      r == DecodeInto(ReplyType(decoded.Action), data[3])
  IN IF a.err = "EOF" THEN [err |-> "", node |-> decoded]
     ELSE IF a.err # "" THEN [err |-> a.err, node |-> decoded]
     ELSE IF r.err = "EOF" THEN [err |-> "", node |-> [decoded EXCEPT !.args = a.x]]
     ELSE IF r.err # "" THEN [err |-> r.err, node |-> decoded]
     ELSE [err |-> "", node |-> [decoded EXCEPT !.args = a.x, !.reply = r.x]]

\* a process makes an action node of some variant
NewActionNode(n) ==
  /\ codec.pc = "idle"
  /\ WellTyped(n)
  /\ codec' = [pc |-> "node", node |-> n, data |-> <<>>,
               decoded |-> [err |-> "", node |-> n]]
  /\ UNCHANGED <<coreVars, notCodec>>

\* it writes the node to the action queue
WriteActionNode ==
  /\ codec.pc = "node"
  /\ codec' = [codec EXCEPT !.pc = "written", !.data = ActionNodeToJson(codec.node)]
  /\ UNCHANGED <<coreVars, notCodec>>

\* another process reads the node from the queue
ReadActionNode ==
  /\ codec.pc = "written"
  /\ codec' = [codec EXCEPT !.pc = "read", !.decoded = ActionNodeFromJson(codec.data)]
  /\ UNCHANGED <<coreVars, notCodec>>

CodecNext ==
  \/ \E n \in ActionNodes : NewActionNode(n)
  \/ WriteActionNode
  \/ ReadActionNode

SpecCodec == InitBinlog /\ [][CodecNext]_vars

\* The two entry points of the reader called with a start position above 0:
\* serve (part_001 100-153) and ServeData (232-276). reader.measured holds the
\* sizes Seek(0, 2) has returned; the copy of the header and of the first event
\* in front of the stream is left out.

\* the start positions a request can name
StartPositions == 1..(MaxLogs * (BINLOG_HEADER_SIZE + MaxLogBytes) + 1)

\* a swap that adds the header of the next file back into the position
RemainingWithHeader(startPosition, size) == startPosition - size + BINLOG_HEADER_SIZE

\* serve: startPosition -= size
Remaining(startPosition, size) == startPosition - size

\* HandleBinlogRequest: serve(pieces[0], pos, rw) opens the named file
HandleBinlogRequest(start) ==
  /\ reader.pc = "idle"
  /\ reader' = [reader EXCEPT !.pc = "seek", !.entry = "serve", !.file = 1,
                              !.requested = start, !.startPosition = start]
  /\ UNCHANGED <<coreVars, notReader>>

\* serve: size := binlogFile.Seek(0, 2); a position above the size goes on to
\* the next file, any other is the place to read from
SeekEnd ==
  /\ reader.pc = "seek"
  /\ LET size == reader.logs[reader.file]
     IN IF reader.startPosition > size
          THEN reader' = [reader EXCEPT
                            !.pc = "open",
                            !.startPosition = Remaining(reader.startPosition, size),
                            !.measured = Append(@, size)]
          ELSE reader' = [reader EXCEPT !.pc = "copy",
                                        !.position = reader.startPosition]
  /\ UNCHANGED <<coreVars, notReader>>

\* serve: binlogFile, nextLog = blr.open(nextLog); open panics with the error
\* of os.Open when the file is not there, HandleBinlogRequest recovers
OpenNextLog ==
  /\ reader.pc = "open"
  /\ IF reader.file + 1 <= Len(reader.logs)
       THEN reader' = [reader EXCEPT !.pc = "seek", !.file = @ + 1]
       ELSE reader' = [reader EXCEPT !.pc = "closed", !.err = "NotFound"]
  /\ UNCHANGED <<coreVars, notReader>>

\* ServeData with a start position: one that is above the size of the named
\* file is an error, the reader returns
ServeDataFrom(start) ==
  /\ reader.pc = "idle"
  /\ LET size == reader.logs[1]
         r == [reader EXCEPT !.entry = "ServeData", !.file = 1, !.requested = start,
                             !.startPosition = start]
     IN IF start > size
          THEN reader' = [r EXCEPT !.pc = "closed", !.measured = <<size>>,
                                   !.err = "start position greater than size"]
          ELSE reader' = [r EXCEPT !.pc = "copy", !.position = start]
  /\ UNCHANGED <<coreVars, notReader>>

SeekNext ==
  \/ MysqldWrite
  \/ MysqldRotate
  \/ \E start \in StartPositions : HandleBinlogRequest(start)
  \/ SeekEnd
  \/ OpenNextLog
  \/ \E start \in StartPositions : ServeDataFrom(start)

SpecSeek == InitBinlog /\ [][SeekNext]_vars

\* Two coordinators on one shard: the wrangler running
\* ShardExternallyReparented and a second shard-wide operation.
InitTwo == Init /\ target = "shard"

NextTwo == WranglerNext \/ OtherNext

SpecTwo == InitTwo /\ [][NextTwo]_vars

\* The steps of a started process go on unless it crashes, and the agent
\* starts vtaction (without forceRerun) for a node it sees in its queue;
\* nothing makes an operator start one with forceRerun.
ActorProgress(a) ==
  \/ \E match \in BOOLEAN : HandleActionGet(a, FALSE, match)
  \/ HandleActionClaim(a)
  \/ \E outcome \in HandlerOutcomes : HandleActionDispatch(a, outcome)
  \/ HandleActionStore(a)
  \/ HandleActionMkdir(a)
  \/ HandleActionDelete(a)
  \/ HandleActionWait(a)

FairSpec ==
  /\ Init /\ [][Next]_vars
  /\ \A a \in Actors : WF_vars(ActorProgress(a))
  /\ WF_vars(WranglerNext)

\* ------------------------------------------------------------- claims
ClaimedFromQueued ==
  {a \in Actors : actors[a].claimed /\ actors[a].readState = ACTION_STATE_QUEUED}

\* C1 as stated: at most one actor's compare-and-set from queued to running
\* succeeds, and every other attempt made with the same read version fails
\* with a version mismatch and does not dispatch.
C1_OtherAttemptsMismatch ==
  /\ Cardinality(ClaimedFromQueued) <= 1
  /\ \A a, b \in Actors :
       (a # b /\ actors[a].claimed /\ actors[b].tried
          /\ actors[b].readVersion = actors[a].readVersion)
       => (actors[b].mismatch /\ ~actors[b].dispatched)

\* C1 amended: at most one actor's compare-and-set from queued to running
\* succeeds; every other attempt made with the same read version fails, with
\* a version mismatch while the queue node exists and with no-node once it
\* has been deleted, and that actor does not dispatch.
C1_AtMostOneClaim ==
  /\ Cardinality(ClaimedFromQueued) <= 1
  /\ \A a, b \in Actors :
       (a # b /\ actors[a].claimed /\ actors[b].tried
          /\ actors[b].readVersion = actors[a].readVersion)
       => /\ ~actors[b].claimed
          /\ ~actors[b].dispatched
          /\ actors[b].mismatch \/ (actors[b].pc = "done" /\ actors[b].ret = ZNONODE)

C1_Witness ==
  \E a, b \in Actors :
    /\ a # b /\ actors[a].claimed /\ actors[a].readState = ACTION_STATE_QUEUED
    /\ actors[b].mismatch /\ actors[b].readVersion = actors[a].readVersion

ActionState == IF log.exists THEN log.state ELSE node.state

SoleClaimant(a) == \A b \in Actors : b # a => ~actors[b].claimed

SameOutcome(x, y) == ((x = NilError) <=> (y = NilError)) /\ x.msg = y.msg

\* C5: an actor whose claim failed with a version mismatch returns only once
\* the terminal record exists, and its outcome is the one returned by the
\* claiming actor that wrote the record.
C5_SameOutcome ==
  \A a, b \in Actors :
    (a # b /\ actors[a].claimed /\ actors[b].mismatch /\ actors[b].pc = "done")
    => /\ log.exists
       /\ (actors[a].stored /\ actors[a].pc = "done")
            => SameOutcome(actors[a].ret, actors[b].ret)

C5_Witness ==
  \E a, b \in Actors :
    /\ a # b /\ actors[a].claimed /\ actors[b].mismatch
    /\ actors[a].pc = "done" /\ actors[b].pc = "done"
    /\ actors[a].stored /\ actors[a].ret.kind = "handler"
    /\ actors[b].ret.kind = "wait"

\* C6: HandleAction dispatches only when it read the node queued, or running
\* with forceRerun; a node read running without forceRerun is only waited
\* on; a node read failed or done makes it return an error without a claim,
\* a dispatch or a log record.
C6_DispatchOnlyQueuedOrForced ==
  \A a \in Actors :
    /\ actors[a].dispatched =>
         \/ actors[a].readState = ACTION_STATE_QUEUED
         \/ actors[a].readState = ACTION_STATE_RUNNING /\ actors[a].forceRerun
    /\ (actors[a].readState = ACTION_STATE_RUNNING /\ ~actors[a].forceRerun) =>
         /\ actors[a].pc \in {"wait", "done", "crashed"}
         /\ ~actors[a].tried /\ ~actors[a].dispatched /\ ~actors[a].stored
         /\ actors[a].pc = "done" =>
              (log.exists /\ actors[a].ret = WaitForCompletionResult(log))
    /\ actors[a].readState \in {ACTION_STATE_FAILED, ACTION_STATE_DONE} =>
         /\ actors[a].pc = "done" /\ actors[a].ret # NilError
         /\ ~actors[a].tried /\ ~actors[a].dispatched /\ ~actors[a].stored
         /\ node.exists /\ node.state = actors[a].readState
              /\ node.version = actors[a].readVersion
         /\ ~log.exists

C6_Witness ==
  \E a, b \in Actors :
    /\ actors[a].readState = ACTION_STATE_FAILED /\ actors[a].pc = "done"
    /\ actors[a].forceRerun
    /\ actors[b].readState = ACTION_STATE_FAILED /\ ~actors[b].forceRerun

C8_WaitersReturn ==
  \A b \in Actors :
    (/\ actors[b].pc = "wait"
     /\ \E a \in Actors : actors[a].pc = "crashed" /\ actors[a].claimed
                          /\ ~actors[a].stored)
    ~> (actors[b].pc \in {"done", "crashed"})

\* C9: when SlaveWasPromoted fails, no SlaveWasRestarted is sent to any
\* tablet, the shard record is neither rebuilt nor changed, and the operation
\* returns an error.
C9_PromoteFailureStops ==
  wr.promoteFailed =>
    /\ \A t \in Tablets : hist.restarted[t] = 0
    /\ hist.rebuilt = 0
    /\ shard = InitShard
    /\ tablets = InitTablets
    /\ wr.pc = "done" => wr.ret # NilError

C9_Witness == wr.promoteFailed /\ wr.pc = "done" /\ hist.promoted = 1

\* C10: an external reparent that obtained the shard lock has released it
\* (its action node is gone from the shard's queue) when it returns.
C10_LockReleased ==
  (wr.pc = "done" /\ wr.locked) => ~node.exists

\* the wrangler is past restartSlavesExternal of a reparent whose
\* SlaveWasPromoted succeeded
FanOutFinished ==
  /\ hist.promoted = 1
  /\ ~wr.promoteFailed
  /\ wr.pc \notin {"promote", "restartSlaves"}

FailureMessage(t) == SlaveWasRestartedError(t, FALSE).msg

\* C12: a SlaveWasRestarted failure on one tablet does not keep the action
\* from being attempted on every other tablet; the error returned holds the
\* error of every failed tablet, and the tablets whose action succeeded keep
\* their new parent.
C12_ErrorsAccumulated ==
  (FanOutFinished /\ wr.pc = "done") =>
    /\ \A t \in Tablets \ {wr.masterElect} : hist.restarted[t] = 1
    /\ {wr.errors[i] : i \in DOMAIN wr.errors} = {FailureMessage(t) : t \in hist.failed}
    /\ Len(wr.errors) = Cardinality(hist.failed)
    /\ hist.failed # {} => wr.ret = MkError("fmt", JoinErrors(wr.errors))
    /\ hist.failed = {} /\ wr.reparentErr = NilError => wr.ret = NilError
    /\ \A t \in Tablets \ ({wr.masterElect} \cup hist.failed) :
         tablets[t].parent = wr.masterElect
    /\ \A t \in hist.failed : tablets[t] = InitTablets[t]
    /\ tablets[wr.masterElect].type = TYPE_MASTER

C12_Witness ==
  /\ FanOutFinished
  /\ wr.pc = "done"
  /\ Cardinality(hist.failed) = 2
  /\ \E t \in Tablets \ hist.failed : hist.restarted[t] = 1
  /\ wr.foundMaster \notin hist.failed

\* C15: an external reparent whose master-elect is already the recorded
\* master, or is not among the shard's tablets, returns an error without
\* creating the action node and without sending any tablet action.
C15_AbortsBeforeLock ==
  (wr.pc # "idle" /\ (wr.masterElect = InitShard.MasterAlias
                       \/ wr.masterElect \notin Tablets)) =>
    /\ wr.pc = "done"
    /\ wr.ret # NilError
    /\ ~wr.locked
    /\ ~node.exists
    /\ hist = NoHistory
    /\ tablets = InitTablets

C15_Witness ==
  /\ wr.pc = "done"
  /\ wr.masterElect = InitShard.MasterAlias
  /\ wr.ret.msg = "master-elect tablet is already master"

\* C13: when the wrangler starts its locked section, the shard data it acts
\* on (the old master, the slave map, the check that the master-elect is not
\* the recorded master) is the shard's data at that moment.
C13_ActsOnLockedView ==
  wr.pc = "promote" =>
    /\ wr.foundMaster = MasterOf(tablets)
    /\ wr.slaveTabletMap = SlavesOf(tablets)
    /\ CheckMasterElect(shard.MasterAlias, wr.masterElect, Tablets) = NilError

WranglerInLockedSection == wr.locked /\ wr.pc # "done"

OtherInLockedSection == other.pc \in {"locked", "reparented"}

C16_PromotedAtMostOnce ==
  /\ ~mysqld.again
  /\ (last.action = "PromoteSlave" /\ last.err.kind = "fmt") => ~last.mysqldCalled
  /\ rsd.exists => mysqld.promoted # {}

\* a RestartSlave has just run on tablet t
RestartSlaveRan(t) ==
  last'.action = "RestartSlave" /\ last'.tablet = t /\ last'.n = last.n + 1

InReplicationGraph(t) == \E q \in graph : q[Len(q)] = t

\* C18: after every tablet action that completed without error, a tablet has
\* an entry in the replication graph if and only if its type is neither idle
\* nor scrap.
C18_InGraphIffAssigned ==
  last.err = NilError =>
    \A t \in Tablets :
      InReplicationGraph(t) <=> tablets[t].type \notin {TYPE_IDLE, TYPE_SCRAP}

\* C19: after promote and restart-slave actions followed by a rebuild, at most
\* one tablet has type master, the shard record names it as the master, and
\* its parent is empty.
C19_OneMaster ==
  (last.action = "Rebuild" /\ last.err = NilError) =>
    /\ Cardinality({t \in Tablets : tablets[t].type = TYPE_MASTER}) <= 1
    /\ \A t \in Tablets :
         tablets[t].type = TYPE_MASTER
           => shard.MasterAlias = t /\ tablets[t].parent = ""

\* the members of a type among the tablets a rebuild was given
MembersOfType(type) == {t \in Tablets : tablets[t].type = type}

AliasSet(aliases) == {aliases[i] : i \in DOMAIN aliases}

\* C20: a rebuild from a list of member tablets returns an error when two
\* members have different key ranges; otherwise the record's master, replica
\* and rdonly aliases are exactly the members of those types, and its key
\* range is the members' common key range.
C20_RebuildPartitions ==
  last.action = "Rebuild" =>
    IF \E t, u \in Tablets : tablets[t].keyRange # tablets[u].keyRange
      THEN last.err # NilError
      ELSE /\ last.err = NilError
           /\ {shard.MasterAlias} \ {""} = MembersOfType(TYPE_MASTER)
           /\ AliasSet(shard.ReplicaAliases) = MembersOfType(TYPE_REPLICA)
           /\ AliasSet(shard.RdonlyAliases) = MembersOfType(TYPE_RDONLY)
           /\ \A t \in Tablets : shard.KeyRange = tablets[t].keyRange

\* C21: a rebuild that directly follows a rebuild from the same member tablets
\* leaves the shard record as the first rebuild made it, whatever the record
\* held before the first one.
C21_RebuildIdempotent ==
  [][(last.action = "Rebuild" /\ last'.action = "Rebuild") => shard' = shard]_vars

C21_Witness ==
  /\ last.action = "Rebuild"
  /\ last.n >= 2
  /\ last.err = NilError
  /\ shard.MasterAlias # ""
  /\ shard.ReplicaAliases # <<>>
  /\ shard.RdonlyAliases # <<>>
  /\ shard.KeyRange = KeyRangeOfShard

\* a goroutine of the validation is blocked sending on the full results channel
BlockedSending ==
  /\ Len(validator.results) = ResultsBuffer
  /\ \/ validator.shardPc = "running" /\ validator.pending # <<>>
     \/ \E t \in Tablets : validator.checks[t] = "running"

\* C22: when the deadline fired while checks were running, waitForResults
\* returns an error having drained the results channel, and no goroutine is
\* left blocked sending on that channel.
C22_DeadlineDrains ==
  (validator.pc = "returned" /\ validator.err = TimedOut) =>
    /\ validator.unread = 0
    /\ ~BlockedSending

\* the id-th statement of the binlog is the BEGIN, a statement or the COMMIT of
\* a transaction that the binlog holds from its BEGIN to its COMMIT
InCommittedTxn(id) ==
  \E a \in 1..id, c \in id..Len(binlog.stmts) :
    /\ a < c
    /\ binlog.stmts[a].kind = "begin"
    /\ binlog.stmts[c].kind = "commit"
    /\ \A j \in (a + 1)..(c - 1) :
         binlog.stmts[j].kind \notin {"begin", "commit", "rollback"}

\* C23: in the stream sent to a subscriber every begin is followed by DMLs and
\* a commit, every DML and commit is preceded by its begin, and every one of
\* these events comes from a transaction whose commit was seen and that was
\* not rolled back.
C23_WholeTransactions ==
  \A i \in DOMAIN blp.sent :
    LET r == blp.sent[i]
        before == IF i > 1 THEN blp.sent[i - 1].type ELSE ""
        after == IF i < Len(blp.sent) THEN blp.sent[i + 1].type ELSE ""
    IN /\ r.type = "begin" => after \in {"dml", "commit"}
       /\ r.type = "dml" => before \in {"begin", "dml"} /\ after \in {"dml", "commit"}
       /\ r.type = "commit" => before \in {"begin", "dml"}
       /\ r.type \in {"begin", "dml", "commit"} => InCommittedTxn(r.id)

C23_Witness ==
  /\ Len(blp.sent) = 3
  /\ blp.sent[1].type = "begin"
  /\ blp.sent[2].type = "dml"
  /\ blp.sent[3].type = "commit"
  /\ \E i \in DOMAIN binlog.stmts : binlog.stmts[i].kind = "rollback"

\* the subscribed database is the one in use when the id-th statement is read
UsingSubscribedDb(id) ==
  \A u \in 1..id :
    (binlog.stmts[u].kind = "use"
     /\ \A v \in (u + 1)..id : binlog.stmts[v].kind # "use")
    => binlog.stmts[u].db = Subscription.dbname

\* the statements a..c of the binlog that a subscriber is to get of the
\* transaction from BEGIN a to COMMIT c: BEGIN, the DMLs in its key range, COMMIT
ExpectedBatch(a, c) ==
  SelectSeq([j \in 1..Len(binlog.stmts) |-> j],
            LAMBDA j : /\ a <= j /\ j <= c
                       /\ \/ j \in {a, c}
                          \/ /\ binlog.stmts[j].kind = "dml"
                             /\ Subscription.start <= binlog.stmts[j].ksid
                             /\ binlog.stmts[j].ksid < Subscription.end)

\* C24: for every transaction the binlog holds from BEGIN to COMMIT (under the
\* subscribed database) the subscriber's stream holds, in this order, its
\* BEGIN, exactly its DMLs with a keyspace id in [start, end), and its COMMIT;
\* when no DML of it is in the range the stream holds nothing of it.
C24_KeyRangeFiltered ==
  \A a, c \in DOMAIN binlog.stmts :
    (/\ a < c
     /\ binlog.stmts[a].kind = "begin"
     /\ binlog.stmts[c].kind = "commit"
     /\ \A j \in (a + 1)..(c - 1) :
          binlog.stmts[j].kind \notin {"begin", "commit", "rollback"}
     /\ UsingSubscribedDb(c))
    => LET batch == SelectSeq(blp.sent,
                              LAMBDA r : /\ r.type \in {"begin", "dml", "commit"}
                                         /\ a <= r.id /\ r.id <= c)
           expected == ExpectedBatch(a, c)
       IN IF Len(expected) = 2 THEN batch = <<>>
          ELSE /\ Len(batch) = Len(expected)
               /\ \A m \in DOMAIN batch :
                    /\ batch[m].id = expected[m]
                    /\ batch[m].type = binlog.stmts[expected[m]].kind

\* the master coordinates of two positions are the same
SameCoordinates(p, q) == p.file = q.file /\ p.offset = q.offset

\* C25 as stated: every event of a transaction batch carries the position of
\* the batch's commit (so each begin and DML carries the position of the event
\* that follows it in the batch), and a DDL carries its statement's coordinate.
C25_CommitCoordinate ==
  \A i \in DOMAIN blp.sent :
    /\ (blp.sent[i].type \in {"begin", "dml"} /\ i < Len(blp.sent))
         => SameCoordinates(blp.sent[i].pos, blp.sent[i + 1].pos)
    /\ blp.sent[i].type = "ddl"
         => SameCoordinates(blp.sent[i].pos, binlog.stmts[blp.sent[i].id])

\* C25, amended: every event of a transaction batch (begin, each DML, commit)
\* and every DDL event carries the coordinate of its own statement, so the
\* commit event carries the transaction's commit coordinate, with its xid.
C25_OwnCoordinate ==
  \A i \in DOMAIN blp.sent :
    LET r == blp.sent[i] IN
    r.type \in {"begin", "dml", "commit", "ddl"}
      => /\ SameCoordinates(r.pos, binlog.stmts[r.id])
         /\ r.pos.relay = binlog.stmts[r.id].relay
         /\ r.pos.xid = IF r.type = "commit" THEN r.id ELSE 0

C25_Witness ==
  /\ Len(blp.sent) = 4
  /\ blp.sent[1].type = "ddl"
  /\ blp.sent[2].type = "begin"
  /\ blp.sent[3].type = "dml"
  /\ blp.sent[4].type = "commit"
  /\ ~SameCoordinates(blp.sent[2].pos, blp.sent[4].pos)

\* C26: the (master file, master offset) positions of the records sent to a
\* subscriber never decrease, file first and then offset, across rotations of
\* the master log and of the relay log too.
C26_PositionsNonDecreasing ==
  \A i, j \in DOMAIN blp.sent :
    i < j => \/ blp.sent[i].pos.file < blp.sent[j].pos.file
             \/ /\ blp.sent[i].pos.file = blp.sent[j].pos.file
                /\ blp.sent[i].pos.offset <= blp.sent[j].pos.offset

\* C27: an error record is the last record of the stream and carries the
\* position the parser has; a stream that a parse error has ended holds
\* exactly one, and nothing is sent after it.
C27_ErrorIsLast ==
  /\ \A i \in DOMAIN blp.sent :
       blp.sent[i].type = "error"
         => /\ i = Len(blp.sent)
            /\ blp.pc = "closed"
            /\ blp.sent[i].pos = blp.currentPosition
  /\ (blp.pc = "closed" /\ blp.version = "server")
       => (blp.sent # <<>> /\ blp.sent[Len(blp.sent)].type = "error")

C27_Witness ==
  /\ blp.pc = "closed"
  /\ Len(binlog.stmts) = 2
  /\ binlog.stmts[2].kind = "dml"
  /\ Len(blp.sent) = 2
  /\ blp.sent[1].type = "ddl"
  /\ blp.sent[2].type = "error"

\* C28: dbmatch says whether the last Use line named the subscribed database,
\* and nothing that was executed under another database, in a transaction or
\* as a DDL, is sent to the subscriber.
C28_OnlySubscribedDb ==
  /\ blp.pc = "parsing" => (blp.dbmatch <=> UsingSubscribedDb(Len(binlog.stmts)))
  /\ \A i \in DOMAIN blp.sent :
       blp.sent[i].type \in {"begin", "dml", "commit", "ddl"}
         => UsingSubscribedDb(blp.sent[i].id)

\* the sleep the throttle is to give a subscriber, in milliseconds:
\* tick * (qps - max) / qps when the total is above the ceiling and the
\* subscriber's rate above its share, zero otherwise
ProportionalSleep(rates, c) ==
  IF totalQps(rates) > ThrottleRate /\ OverShare(rates, c)
    THEN (TickerSeconds * 1000 * (rates[c] * numClients(rates) - ThrottleRate))
           \div (rates[c] * numClients(rates))
    ELSE 0

\* C29: after each tick every subscriber's sleep between commits is
\* tick * (qps - max) / qps if the total rate is above the ceiling and its own
\* rate above its share, and zero otherwise; the sleep is shorter than the
\* tick, and the ticker goes on to the next tick.
C29_ProportionalBackoff ==
  [][throttle'.tick # throttle.tick
       => /\ throttle'.ticker = "running"
          /\ \A c \in throttle'.clients :
               /\ throttle'.sleepToThrottle[c] = ProportionalSleep(throttle'.krRateMap, c)
               /\ throttle'.sleepToThrottle[c] < TickerSeconds * 1000]_vars

\* the bytes a reader that is at offset position of file f is to have
\* delivered: the first file from its start, every later file from the end of
\* its header, every file before f to its end
RECURSIVE EventBytes(_, _)
EventBytes(f, position) ==
  IF f = 0 THEN <<>>
  ELSE EventBytes(f - 1, reader.logs[f - 1])
         \o LogBytes(f, IF f = 1 THEN 0 ELSE BINLOG_HEADER_SIZE, position)

\* C30: the bytes the reader has delivered are the bytes of the files in
\* order, the header of every file after the first left out: when it has
\* swapped to the next file, no byte of the old file is missing, none is there
\* twice.
C30_NoByteLost == reader.out = EventBytes(reader.file, reader.position)

RECURSIVE SumSizes(_, _)
SumSizes(sizes, n) == IF n = 0 THEN 0 ELSE sizes[n] + SumSizes(sizes, n - 1)

\* the reader has landed in a file: the sizes of the files before it were
\* taken off the start position, and what is left is inside the file
LandedInside ==
  /\ reader.file = Len(reader.measured) + 1
  /\ reader.position + SumSizes(reader.measured, Len(reader.measured)) = reader.requested
  /\ reader.position <= reader.logs[reader.file]
  /\ \A i \in DOMAIN reader.measured : reader.measured[i] <= reader.logs[i]

\* C31 as stated: in serve and in ServeData a start position above the size
\* of the named file ends inside a later file, the sizes of the files before
\* taken off it, and one beyond all the files ends with a NotFound error.
C31_SeekAcrossFiles ==
  reader.requested > 0
    => /\ reader.pc = "copy" => LandedInside
       /\ reader.pc = "closed" => reader.err = "NotFound"

\* C31: in serve a start position above the size of the named file ends
\* inside a later file, the sizes of the files before taken off it, and one
\* beyond all the files ends with a NotFound error; ServeData refuses a start
\* position above the size of the named file and delivers nothing.
C31_SeekAcrossFilesInServe ==
  /\ (reader.entry = "serve" /\ reader.pc = "copy") => LandedInside
  /\ (reader.entry = "serve" /\ reader.pc = "closed")
       => /\ reader.err = "NotFound"
          /\ reader.file = Len(reader.measured)
          /\ reader.requested > SumSizes(reader.measured, Len(reader.measured))
  /\ (reader.entry = "ServeData" /\ reader.pc = "copy")
       => (reader.file = 1 /\ reader.position = reader.requested
           /\ reader.position <= reader.logs[1])
  /\ (reader.entry = "ServeData" /\ reader.pc = "closed")
       => /\ reader.err = "start position greater than size"
          /\ reader.requested > reader.measured[1]
          /\ reader.file = 1
          /\ reader.out = <<>>

C31_Witness ==
  /\ reader.entry = "serve"
  /\ reader.pc = "copy"
  /\ reader.file = 2
  /\ reader.measured = <<5>>
  /\ reader.requested = 7

\* a value that is nil and the value new() makes of a struct are both empty
SameValue(x, y) ==
  \/ x = y
  \/ {x, y} = {Nil, [type |-> "struct", v |-> "zero"]}

\* C32: reading what was written of an action node of any variant, its args
\* and reply nil or not, succeeds and gives a node with the same action, GUID,
\* state and error and the same args and reply.
C32_CodecRoundTrip ==
  codec.pc = "read"
    => /\ codec.decoded.err = ""
       /\ codec.decoded.node.Action = codec.node.Action
       /\ codec.decoded.node.ActionGuid = codec.node.ActionGuid
       /\ codec.decoded.node.State = codec.node.State
       /\ codec.decoded.node.Error = codec.node.Error
       /\ SameValue(codec.decoded.node.args, codec.node.args)
       /\ SameValue(codec.decoded.node.reply, codec.node.reply)

\* the goroutines that hold a token of the resource
Holders(name) ==
  IF restore.pc = "idle" THEN {}
  ELSE {t \in RestoreTasks : name \in restore.tasks[t].holds}

\* C33: at no time do more goroutines of a multi-snapshot restore hold a
\* resource than its concurrency allows.
C33_AtMostK ==
  \A name \in Resources : Cardinality(Holders(name)) <= Concurrency(name)

C33_Witness ==
  /\ restore.pc # "idle"
  /\ Cardinality(Holders("net")) = 2
  /\ \E t \in RestoreTasks : restore.tasks[t].pc = "want_net"

\* a goroutine that is over holds no token
NoTokenKept ==
  restore.pc # "idle" =>
    \A t \in RestoreTasks : restore.tasks[t].pc = "done" => restore.tasks[t].holds = {}

\* Wait returns with every token back and the error of the recorder
WaitResult ==
  (restore.pc = "returned" /\ restore.waited) =>
    /\ \A t \in RestoreTasks : restore.tasks[t].pc = "done"
    /\ \A name \in Resources : restore.free[name] = Concurrency(name)
    /\ (restore.ret # "") <=> HasErrors(restore)

Started(t) == restore.pc # "idle" /\ restore.tasks[t].pc # "none"

Finished(t) == restore.pc # "idle" /\ restore.tasks[t].pc = "done"

AllStarted == restore.pc = "spawning" /\ restore.spawned = NumTasks

\* C40: every goroutine of a multi-snapshot restore gives back every token
\* it took, on every path; every goroutine that was started comes to its end
\* (none waits forever for a token); and once all were started Wait returns,
\* with an error if and only if some task recorded one.
C40_RestoreTerminates ==
  /\ [](NoTokenKept /\ WaitResult)
  /\ \A t \in RestoreTasks : Started(t) ~> Finished(t)
  /\ AllStarted ~> (restore.pc = "returned" /\ restore.waited)

C40_Witness ==
  /\ restore.pc = "returned"
  /\ restore.waited
  /\ restore.errorCount = 2
  /\ restore.ret = "load"

\* C38: a non-forced Scrap of a tablet whose replication path still has
\* children returns the not-empty error of the delete to its caller.
C38_NotEmptyReturned ==
  [][\A t \in Tablets :
       (/\ ScrapAction(t, FALSE)
        /\ tablets[t].type # TYPE_IDLE
        /\ ReplicationPath(tablets[t], t) \in graph
        /\ HasChildren(graph, ReplicationPath(tablets[t], t)))
         => last'.err # NilError]_vars

PartialRestoreRan(t) ==
  last'.action = "PartialRestore" /\ last'.tablet = t /\ last'.n = last.n + 1

\* the restore is refused, leaving the tablet unchanged, unless the target has
\* type restore
RefusedUnlessRestoreType(t) ==
  tablets[t].type # TYPE_RESTORE
    => last'.err # NilError /\ tablets' = tablets /\ graph' = graph

\* C34 as stated: after a successful partial restore the target tablet has type
\* spare, its parent is the source tablet the snapshot was taken from, its key
\* range is the snapshot's, and it is in the replication graph; the restore
\* is refused, leaving the tablet unchanged, unless the target has type
\* restore.
C34_ParentIsSource ==
  [][\A t \in Tablets : PartialRestoreRan(t) =>
       /\ last'.err = NilError =>
            /\ tablets'[t].type = TYPE_SPARE
            /\ tablets'[t].parent = last'.data.source
            /\ tablets'[t].keyRange = last'.data.keyRange
            /\ ReplicationPath(tablets'[t], t) \in graph'
       /\ RefusedUnlessRestoreType(t)]_vars

\* C34 amended: after a successful partial restore the target tablet has type
\* spare, its parent is the master tablet given as the parent in the action's
\* arguments, its key range is the snapshot's, and it is in the replication
\* graph; the restore is refused, leaving the tablet unchanged, unless the
\* target has type restore.
C34_ParentIsGivenMaster ==
  [][\A t \in Tablets : PartialRestoreRan(t) =>
       /\ last'.err = NilError =>
            /\ tablets'[t].type = TYPE_SPARE
            /\ tablets'[t].parent = last'.data.parent
            /\ tablets[last'.data.parent].type = TYPE_MASTER
            /\ tablets'[t].keyRange = last'.data.keyRange
            /\ ReplicationPath(tablets'[t], t) \in graph'
       /\ RefusedUnlessRestoreType(t)]_vars

C34_Witness ==
  /\ last.action = "PartialRestore"
  /\ last.err = NilError
  /\ last.data.source # last.data.parent
  /\ tablets[last.tablet] =
       [type |-> TYPE_SPARE, parent |-> last.data.parent, keyRange |-> "80-"]
  /\ <<last.data.parent, last.tablet>> \in graph

\* C35: an external reparent whose SlaveWasPromoted succeeded has rebuilt the
\* shard serving graph when it returns (and so before it gives up the lock),
\* also when some SlaveWasRestarted failed.
C35_RebuiltBeforeRelease ==
  (FanOutFinished /\ wr.pc = "done") => hist.rebuilt = 1

\* C36: a non-forced Wrangler.ChangeType rebuilds the shard and the keyspace
\* graph only after the action completed without error; when queuing the
\* action or waiting for it fails, that error is returned and nothing is
\* rebuilt.
C36_RebuildAfterSuccess ==
  (wr.pc = "done" /\ wr.op = "ChangeType" /\ ~wr.force /\ wr.actionErr # NilError) =>
    /\ wr.ret = wr.actionErr
    /\ ~wr.rebuiltShard
    /\ ~wr.rebuiltKeyspace

\* C37: when a rebuild is required and not skipped, Wrangler.Scrap returns an
\* error whenever the scrap itself failed (the forced direct scrap, queuing
\* the action, or waiting for it), and rebuilds nothing then.
C37_ScrapFailureReturned ==
  (wr.pc = "done" /\ wr.op = "Scrap" /\ wr.serving /\ wr.actionErr # NilError) =>
    /\ wr.ret # NilError
    /\ ~wr.rebuiltShard
    /\ ~wr.rebuiltKeyspace

\* C39: when every validation task finished before the deadline (the wait
\* ended on done, not on the timer), every result that was sent has been
\* received, however many there were for the size of the channel, and the
\* validator returns an error if and only if some task reported one.
C39_NoResultLost ==
  (validator.pc = "returned" /\ validator.err # TimedOut) =>
    /\ validator.wg = 0
    /\ validator.pending = <<>>
    /\ validator.results = <<>>
    /\ validator.received = validator.sent
    /\ (validator.err # NilError) <=> validator.reported

C39_Witness ==
  /\ validator.pc = "returned"
  /\ validator.err = ValidationErrors
  /\ validator.sent > ResultsBuffer + 1
  /\ validator.received = validator.sent

====
